---- MODULE Spec2Model ----
(***************************************************************************)
(* Verification model of the AIClient-2-API request-path runtime.          *)
(*                                                                         *)
(* Components modelled here                                                *)
(*   - the prefix-cache accountant (RedisCacheService.computeBreakpoints   *)
(*     and lookupOrCreate, with CumulativeHasher and normalizeToolForHash) *)
(*   - the Grok reverse web-chat stream converter                          *)
(*     (GrokConverter.toOpenAIStreamChunk fed by                           *)
(*     GrokApiService.generateContentStream)                               *)
(*                                                                         *)
(* Conventions                                                             *)
(*   - a JavaScript string is a TLA+ string; a text the code searches     *)
(*     with includes() is given as its pieces. A text the Grok converter   *)
(*     splits, trims and matches is a sequence of symbols: characters,    *)
(*     and the tags and the JSON body as indivisible symbols.              *)
(*   - SHA-256 is taken to be injective: a hash is the hashed buffer.      *)
(*   - JavaScript indices are 0-based; the model's are 1-based and 0       *)
(*     stands for the code's -1.                                           *)
(***************************************************************************)
EXTENDS Integers, Sequences, FiniteSets, TLC

VARIABLES
    \* ---- prefix-cache accountant: computeBreakpoints ----
    request,          \* the request last given to computeBreakpoints
    breakpoints,      \* what computeBreakpoints returned for it
    prevRequest,      \* the request of the call before
    prevBreakpoints,  \* what computeBreakpoints returned for prevRequest
    tokenizerFails    \* whether countTokens throws (the ceil(len/4) fallback)

bpVars == <<request, breakpoints, prevRequest, prevBreakpoints, tokenizerFails>>

VARIABLES
    \* ---- prefix-cache accountant: RedisCacheService and its store ----
    isEnabled,        \* this.isEnabled (REDIS_ENABLED)
    isInitialized,    \* this.isInitialized
    client,           \* this.client: NoClient (null) or the ioredis status
    initPc,           \* where the running initialize() is: idle, connect, ping
    initOutcome,      \* how the last initialize() ended: none, ok, failed, rejected
    store,            \* the key-value store: key -> NoEntry or [value, ttl]
    calls,            \* per slot: the lookupOrCreate call in flight, or the
                      \* one that returned there last
    lastSlot          \* the slot of the call that returned last (0: none yet)

cacheVars == <<isEnabled, isInitialized, client, initPc, initOutcome, store,
               calls, lastSlot>>

VARIABLES
    \* ---- Grok stream: generateContentStream feeding toOpenAIStreamChunk ----
    streamId,         \* the responseId the upstream gives this stream's events
    streamPc,         \* generateContentStream: reading, closed, failed
    lastResponseId,   \* its lastResponseId
    yielded,          \* the upstream events it has yielded so far
    requestStates,    \* GrokConverter.requestStates: response id -> state
    uuidCount,        \* how many uuidv4() values _formatResponseId has drawn
    emitted,          \* the chunks toOpenAIStreamChunk has returned, in order
    origin,           \* for each emitted chunk, the number of the event it is of
    collected,        \* what generateContent has collected of the same events
    response,         \* toOpenAIResponse of it, once the stream has ended
    other             \* a second stream through the same converter: its pc,
                      \* lastResponseId, yielded events and emitted chunks

grokVars == <<streamId, streamPc, lastResponseId, yielded, requestStates, uuidCount,
              emitted, origin, collected, response, other>>

\* The request of a generateContentStream call of the Grok adapter
\* (src/src/providers/grok/grok-core.js).
VARIABLES
    attachments,      \* attachments still to upload
    attached,         \* fileMetadataIds pushed to fileAttachments
    contentType,      \* content-type header of the chat response
    thrown            \* the error the call has thrown to its caller, if any

adapterVars == <<attachments, attached, contentType, thrown>>

\* The provider pool and the adapter factory behind getApiServiceWithFallback
\* (src/src/services/service-manager.js, adapter.js in src/unnamed/part_001).
VARIABLES
    activeCount,      \* per credential uuid: slots taken and not released
    serviceInstances, \* provider keys that have an adapter instance
    apiCalls          \* per getApiServiceWithFallback call: pc, type, uuid

serviceVars == <<activeCount, serviceInstances, apiCalls>>

\* One adapter instance and its refreshToken / forceRefreshToken calls
\* (adapter.js in src/unnamed/part_001, src/src/providers/grok/grok-core.js).
VARIABLES
    adapterKind,      \* the adapter class of the instance
    coreInitialized,  \* isInitialized of the core service
    now,              \* Date.now()
    lastSyncAt,       \* GrokApiService.lastSyncAt; 0 for null
    expiryNear,       \* isExpiryDateNear() of an OAuth core service
    refreshCalls      \* per call: operation, pc, isExpiryDateNear() when it
                      \* started, whether it issued the upstream refresh

refreshVars == <<adapterKind, coreInitialized, now, lastSyncAt, expiryNear, refreshCalls>>

\* The usage-cache file and the calls that read and write it
\* (src/src/ui-modules/auth.js).
VARIABLES
    loaded,           \* usage-cache.json as it was when the module was loaded
    files,            \* the files of the configs directory, by name
    fileVersion,      \* how often the content of usage-cache.json was replaced
    writeLock,        \* _writeLock: the call whose promise it is; 0 for the
                      \* promise resolved at load
    made,             \* the updateProviderUsageCache calls in call order
    usageCalls,       \* per call: operation, pc and locals
    \* ---- src/services/service-manager.js ----
    providerPoolManager, \* whether the provider pool manager exists (not null)
    boot,             \* the initApiService call: pc, config and its counts
    warmup,           \* the promise of warmupNodes()
    expiringCheck,    \* the promise of checkAndRefreshExpiringNodes()
    selectCalls,      \* per getApiService(WithFallback) call: pc and locals
    \* ---- the two CumulativeHasher classes ----
    incremental,      \* the hasher of ui-modules/auth.js: _hash, _currentDigest, _dirty
    buffered,         \* the hasher of utils/crypto-utils.js: buffer
    returned,         \* what the last getCurrentHash/finalize of each returned
    hasherOps,        \* operations done on the two hashers
    \* ---- generateContentStream of grok-core.js, attempt after attempt ----
    grokUuid,         \* this.uuid of the GrokApiService ("": none)
    needRefresh,      \* markProviderNeedRefresh calls made for the credential
    requestBody,      \* the request body: images to upload, fileAttachments
    attempt,          \* the running or last generateContentStream call
    sentPayloads,     \* per attempt that built its final payload: its fileAttachments
    \* ---- the master process that supervises the worker ----
    workerProcess,    \* workerProcess: the pid of the child object, or NoWorker
    workerStatus,     \* workerStatus: pid, restartCount, lastRestartTime, isRestarting
    alive,            \* the pids of the worker processes that have not exited
    forks,            \* how many worker processes were forked so far
    stops,            \* the stopWorker calls whose 'exit' listener is registered
    restarts,         \* the restartWorker calls between their guard and their return
    scheduled,        \* pending timers of scheduleRestart
    requests,         \* requests and worker messages received so far
    lastReply,        \* what the last start or restart reported
    afterStop,        \* a stop request was answered and no start or restart
                      \* request has arrived since
    crashPending,     \* the worker crashed and no worker was forked since
    \* ---- the login tokens of src/ui-modules/auth.js ----
    tokenStoreFile,   \* configs/token-store.json: the tokens with their expiryTime
    tokenCalls,       \* per call: operation, pc, token and the store it read
    tokenClock,       \* Date.now()
    savedTokens,      \* the tokens whose saveToken has returned
    \* ---- getServiceAdapter of src/providers/adapter.js, call after call ----
    instancesByKey,   \* serviceInstances: the instance of every key that has one
    constructions,    \* the providerKey of every instance constructed, in order
    adapterCall,      \* the last getServiceAdapter call: config, key and outcome
    returnedAdapters  \* the pairs of key and instance that calls have returned

usageVars == <<loaded, files, fileVersion, writeLock, made, usageCalls>>

managerVars == <<providerPoolManager, boot, warmup, expiringCheck, selectCalls>>

hasherVars == <<incremental, buffered, returned, hasherOps>>

attemptVars == <<grokUuid, needRefresh, requestBody, attempt, sentPayloads>>

supervisorVars == <<workerProcess, workerStatus, alive, forks, stops, restarts, scheduled,
                   requests, lastReply, afterStop, crashPending>>

tokenVars == <<tokenStoreFile, tokenCalls, tokenClock, savedTokens>>

singletonVars == <<instancesByKey, constructions, adapterCall, returnedAdapters>>

vars == <<bpVars, cacheVars, grokVars, adapterVars, serviceVars, refreshVars, usageVars, managerVars, hasherVars, attemptVars, supervisorVars, tokenVars, singletonVars>>




----------------------------------------------------------------------------
(* Bounds *)

\* Most hashed units (content blocks and string-content messages) in the
\* messages of one request.
MaxUnits == 3

\* Most events the upstream sends in one Grok stream.
MaxEvents == 5

\* Most attachments of a Grok request, and most events of its stream.
MaxAttachments == 2
MaxConnectEvents == 2

\* Last time of the clock, and the ticks after which a usage sync is stale
\* (CRON_NEAR_MINUTES).
MaxTime == 3
NearInterval == 1

\* Most hashed units of the messages of a request that is repeated with other
\* markers or another order of its tools.
MaxVariantUnits == 2

\* Concurrent calls on the usage cache.
MaxUsageCalls == 3

\* Slots of one credential.
SlotCapacity == 1

\* Nodes in config.providerPools.
MaxNodes == 2

\* Operations on a pair of hashers.
MaxHasherOps == 5

\* generateContentStream calls for one request.
MaxAttempts == 2

\* Most events of each of two Grok streams converted side by side.
MaxPairEvents == 3

----------------------------------------------------------------------------
(* Generic helpers *)

Max(a, b) == IF a >= b THEN a ELSE b

Min(a, b) == IF a <= b THEN a ELSE b

\* Math.ceil(n / 4) for n >= 0
CeilDiv4(n) == (n + 3) \div 4

RECURSIVE JsString(_)
\* The JavaScript string whose pieces are given, in order.
JsString(pieces) ==
    IF pieces = << >> THEN "" ELSE Head(pieces) \o JsString(Tail(pieces))

\* String.prototype.includes, for a needle that is one of the pieces.
Includes(pieces, needle) == \E i \in 1..Len(pieces) : pieces[i] = needle

----------------------------------------------------------------------------
(* src/utils/crypto-utils.js *)

\* The order of localeCompare and of Array.prototype.sort on the names and
\* keys the model uses ('' sorts first). "\\u00e9" is the one-character name
\* U+00E9, which is a tool name only and sorts after every name in e.
NameOrder ==
    << "", "a", "b", "c", "cache_control", "\\u00e9", "text", "thinking", "type", "z" >>

\* The two-character name U+0065 U+0301, canonically equivalent to U+00E9.
Decomposed == "e\\u0301"

\* What String.prototype.localeCompare compares: canonically equivalent
\* strings compare equal (localeCompare returns 0 for them).
CollationKey(name) == IF name = Decomposed THEN "\\u00e9" ELSE name

NameRank(n) == CHOOSE i \in 1..Len(NameOrder) : NameOrder[i] = n

RECURSIVE InsertSorted(_, _)
\* The <<key, value>> pair kv inserted after every pair whose key does not
\* compare greater: the step of a stable sort.
InsertSorted(kv, sorted) ==
    IF sorted = << >> \/ NameRank(kv[1]) < NameRank(Head(sorted)[1])
    THEN << kv >> \o sorted
    ELSE << Head(sorted) >> \o InsertSorted(kv, Tail(sorted))

RECURSIVE StableSort(_)
\* Array.prototype.sort (stable) of <<key, value>> pairs by key.
StableSort(s) ==
    IF s = << >> THEN << >>
    ELSE InsertSorted(s[Len(s)], StableSort(SubSeq(s, 1, Len(s) - 1)))

\* sortJsonKeys on an object given as its <<key, value>> pairs in insertion
\* order (the values are strings): Object.keys(value).sort().
sortJsonKeys(obj) == StableSort(obj)

RECURSIVE JoinPairs(_)
\* "k":"v" members separated by commas, in the order given.
JoinPairs(obj) ==
    IF obj = << >> THEN ""
    ELSE "\"" \o obj[1][1] \o "\":\"" \o obj[1][2] \o "\""
         \o (IF Len(obj) > 1 THEN "," ELSE "")
         \o JoinPairs(Tail(obj))

\* stableStringify (safe-stable-stringify): the object's keys in sorted order.
stableStringify(obj) == "{" \o JoinPairs(StableSort(obj)) \o "}"

RECURSIVE JoinBar(_)
\* parts.join('|')
JoinBar(parts) ==
    IF parts = << >> THEN ""
    ELSE Head(parts) \o (IF Len(parts) > 1 THEN "|" ELSE "") \o JoinBar(Tail(parts))

\* normalizeToolForHash: "name:{name}|desc:{description}|schema:{sorted_json}",
\* each part only when the field is present and non-empty.
normalizeToolForHash(tool) ==
    JoinBar(
        (IF tool.name # "" THEN << "name:" \o tool.name >> ELSE << >>)
     \o (IF tool.description # "" THEN << "desc:" \o tool.description >> ELSE << >>)
     \o (IF tool.input_schema # << >>
         THEN << "schema:" \o stableStringify(sortJsonKeys(tool.input_schema)) >>
         ELSE << >>))

\* CumulativeHasher.update: this.buffer += data
HasherUpdate(buffer, data) == buffer \o data

\* CumulativeHasher.getCurrentHash: sha256 of the buffer.
getCurrentHash(buffer) == buffer

----------------------------------------------------------------------------
(* RedisCacheService: _parseTtl and computeBreakpoints                      *)
(*                                                                         *)
(* A request is [tools, system, messages]:                                 *)
(*   tools     a sequence of [name, description, input_schema,             *)
(*             cache_control] (empty for null or []);                      *)
(*   system    [kind |-> "null"], [kind |-> "string", text] or             *)
(*             [kind |-> "array", entries], an entry being                 *)
(*             [text, cache_control] with text given as pieces;            *)
(*   messages  a sequence of [role, content], content being                *)
(*             [kind |-> "string", text] or [kind |-> "array", blocks], a  *)
(*             block being [type, text, thinking, cache_control] where ""  *)
(*             is an absent text or thinking.                              *)
(* A cache_control is "none" (absent), "5m" or "1h".                       *)

NoCC == "none"

DEFAULT_TTL_SECS == 300

EXTENDED_TTL_SECS == 3600

\* The sentinel of the billing header system entry.
BillingHeader == "x-anthropic-billing-header"

\* _parseTtl: the extended TTL for ttl '1h', the default one otherwise.
parseTtl(cacheControl) ==
    IF cacheControl = "1h" THEN EXTENDED_TTL_SECS ELSE DEFAULT_TTL_SECS

\* The tokenizer (@anthropic-ai/tokenizer), a stand-in: one token per
\* character.
Tokenize(text) == Len(text)

\* try { countTokens(text) } catch { Math.ceil(text.length / 4) }
countTokens(text) ==
    IF tokenizerFails THEN CeilDiv4(Len(text)) ELSE Tokenize(text)

\* breakpoints.push({hash: hasher.getCurrentHash(), tokens: cumulativeTokens, ttl})
PushBreakpoint(st, cacheControl) ==
    [st EXCEPT !.bps = Append(@, [hash   |-> getCurrentHash(st.buffer),
                                  tokens |-> st.tokens,
                                  ttl    |-> parseTtl(cacheControl)])]

\* hasher.update(text); cumulativeTokens += countTokens(text)
Feed(st, text) ==
    [st EXCEPT !.buffer = HasherUpdate(@, text),
               !.tokens = @ + countTokens(text)]

\* The body of the loop over the sorted tools.
ProcessTool(st, tool) ==
    LET fed == Feed(st, normalizeToolForHash(tool))
    IN  IF tool.cache_control # NoCC
        THEN PushBreakpoint(fed, tool.cache_control)
        ELSE fed

\* [...tools].sort((a, b) => (a.name || '').localeCompare(b.name || ''))
SortTools(tools) ==
    LET keyed  == [i \in 1..Len(tools) |-> << CollationKey(tools[i].name), tools[i] >>]
        sorted == StableSort(keyed)
    IN  [i \in 1..Len(sorted) |-> sorted[i][2]]

RECURSIVE ProcessTools(_, _)
ProcessTools(st, sortedTools) ==
    IF sortedTools = << >> THEN st
    ELSE ProcessTools(ProcessTool(st, Head(sortedTools)), Tail(sortedTools))

\* The loop body without the billing-header skip.
ProcessSystemEntryNoSkip(st, entry) ==
    LET text == JsString(entry.text)
        fed  == IF text # "" THEN Feed(st, text) ELSE st
    IN  IF entry.cache_control # NoCC
        THEN PushBreakpoint(fed, entry.cache_control)
        ELSE fed

\* The body of the loop over the system entries: an entry holding the billing
\* header is skipped whole; a non-empty text is fed; a marked entry makes a
\* breakpoint.
ProcessSystemEntry(st, entry) ==
    LET text == JsString(entry.text)
    IN  IF text # "" /\ Includes(entry.text, BillingHeader)
        THEN st
        ELSE LET fed == IF text # "" THEN Feed(st, text) ELSE st
             IN  IF entry.cache_control # NoCC
                 THEN PushBreakpoint(fed, entry.cache_control)
                 ELSE fed

RECURSIVE ProcessSystemEntries(_, _)
ProcessSystemEntries(st, entries) ==
    IF entries = << >> THEN st
    ELSE ProcessSystemEntries(ProcessSystemEntry(st, Head(entries)), Tail(entries))

\* if (system) { systemArray = Array.isArray(system) ? system
\*                                                   : [{type: 'text', text: system}] ... }
ProcessSystem(st, system) ==
    CASE system.kind = "null"   -> st
      [] system.kind = "string" ->
            IF JsString(system.text) = "" THEN st
            ELSE ProcessSystemEntries(
                     st, << [text |-> system.text, cache_control |-> NoCC] >>)
      [] system.kind = "array"  -> ProcessSystemEntries(st, system.entries)

\* The block as it is, cache_control included.
BlockWithMarker(block) ==
    << << "type", block.type >> >>
    \o (IF block.text # "" THEN << << "text", block.text >> >> ELSE << >>)
    \o (IF block.thinking # "" THEN << << "thinking", block.thinking >> >> ELSE << >>)
    \o (IF block.cache_control # NoCC
        THEN << << "cache_control", block.cache_control >> >> ELSE << >>)

\* { ...block } without cache_control, the keys in the order the client wrote
\* them.
BlockForHash(block) ==
    << << "type", block.type >> >>
    \o (IF block.text # "" THEN << << "text", block.text >> >> ELSE << >>)
    \o (IF block.thinking # "" THEN << << "thinking", block.thinking >> >> ELSE << >>)

\* The body of the loop over a message's blocks.
ProcessBlock(st, block) ==
    LET hashed   == [st EXCEPT !.buffer =
                        HasherUpdate(@, stableStringify(BlockForHash(block)))]
        withText == IF block.text # ""
                    THEN [hashed EXCEPT !.tokens = @ + countTokens(block.text)]
                    ELSE hashed
        withThink == IF block.thinking # ""
                     THEN [withText EXCEPT !.tokens = @ + countTokens(block.thinking)]
                     ELSE withText
    IN  IF block.cache_control # NoCC
        THEN PushBreakpoint(withThink, block.cache_control)
        ELSE withThink

\* Whether block b of message m carries cache_control.
IsMarkedBlock(messages, m, b) ==
    /\ messages[m].content.kind = "array"
    /\ b \in 1..Len(messages[m].content.blocks)
    /\ messages[m].content.blocks[b].cache_control # NoCC

\* The first pass: lastCacheControlMsgIdx (0 when there is none).
LastCacheControlMsgIdx(messages) ==
    LET marked == {m \in 1..Len(messages) :
                      /\ messages[m].content.kind = "array"
                      /\ \E b \in 1..Len(messages[m].content.blocks) :
                             IsMarkedBlock(messages, m, b)}
    IN  IF marked = {} THEN 0 ELSE CHOOSE m \in marked : \A k \in marked : k <= m

\* The first pass: lastCacheControlBlockIdx (0 when there is none).
LastCacheControlBlockIdx(messages) ==
    LET m == LastCacheControlMsgIdx(messages)
    IN  IF m = 0 THEN 0
        ELSE LET marked == {b \in 1..Len(messages[m].content.blocks) :
                               IsMarkedBlock(messages, m, b)}
             IN  CHOOSE b \in marked : \A k \in marked : k <= b

\* The number of blocks of message msgIdx the second pass goes through before
\* its break (blockIdx > lastCacheControlBlockIdx in the last marked message).
BlockLimit(messages, msgIdx) ==
    IF msgIdx = LastCacheControlMsgIdx(messages)
    THEN LastCacheControlBlockIdx(messages)
    ELSE Len(messages[msgIdx].content.blocks)

RECURSIVE ProcessBlocks(_, _, _, _)
\* Blocks blockIdx..limit of a message's content.
ProcessBlocks(st, blocks, blockIdx, limit) ==
    IF blockIdx > limit THEN st
    ELSE ProcessBlocks(ProcessBlock(st, blocks[blockIdx]), blocks, blockIdx + 1, limit)

\* The body of the second pass for one message (msgIdx is not past the last
\* marked message).
ProcessMessage(st, messages, msgIdx) ==
    LET content == messages[msgIdx].content
        lastMsg == LastCacheControlMsgIdx(messages)
        lastBlk == LastCacheControlBlockIdx(messages)
    IN  CASE content.kind = "array" ->
                ProcessBlocks(st, content.blocks, 1, BlockLimit(messages, msgIdx))
          [] content.kind = "string" ->
                IF msgIdx < lastMsg \/ (msgIdx = lastMsg /\ lastBlk = 0)
                THEN Feed(st, content.text)
                ELSE st
          [] OTHER -> st

\* The number of messages the second pass goes through before its break
\* (msgIdx > lastCacheControlMsgIdx).
MessageLimit(messages) == Min(Len(messages), LastCacheControlMsgIdx(messages))

RECURSIVE ProcessMessages(_, _, _, _)
\* Messages msgIdx..limit.
ProcessMessages(st, messages, msgIdx, limit) ==
    IF msgIdx > limit THEN st
    ELSE ProcessMessages(ProcessMessage(st, messages, msgIdx), messages, msgIdx + 1, limit)

\* new CumulativeHasher(), cumulativeTokens = 0, breakpoints = []
NewHasherState == [buffer |-> "", tokens |-> 0, bps |-> << >>]

\* The state of computeBreakpoints at its return: tools, then system, then
\* messages.
HashRequest(tools, system, messages) ==
    LET afterTools  == ProcessTools(NewHasherState, SortTools(tools))
        afterSystem == ProcessSystem(afterTools, system)
    IN  ProcessMessages(afterSystem, messages, 1, MessageLimit(messages))

RECURSIVE ContentJson(_)
\* Every message's content, stringified, one after the other.
ContentJson(messages) ==
    IF messages = << >> THEN ""
    ELSE LET content == Head(messages).content
         IN  (IF content.kind = "string" THEN content.text
              ELSE JsString([i \in 1..Len(content.blocks) |->
                                stableStringify(BlockForHash(content.blocks[i]))]))
             \o ContentJson(Tail(messages))

\* computeBreakpoints with each breakpoint's hash taken over the prefix and
\* the whole conversation, not over the prefix alone.
computeBreakpointsOverConversation(tools, system, messages) ==
    LET bps == HashRequest(tools, system, messages).bps
    IN  [i \in 1..Len(bps) |->
            [bps[i] EXCEPT !.hash =
                getCurrentHash(HasherUpdate(@, ContentJson(messages)))]]

\* computeBreakpoints(tools, system, messages)
computeBreakpoints(tools, system, messages) ==
    HashRequest(tools, system, messages).bps

----------------------------------------------------------------------------
(* The requests the clients send to computeBreakpoints *)

Tool(name, description, schema, cc) ==
    [name |-> name, description |-> description, input_schema |-> schema,
     cache_control |-> cc]

ToolInputs ==
    { << >>,
      << Tool("b", "", << >>, NoCC),
         Tool("a", "d", << << "z", "1" >>, << "a", "2" >> >>, "5m") >>,
      << Tool("a", "d", << >>, "1h"), Tool("b", "", << >>, "5m") >> }

\* Tools lists with names that are different strings and canonically
\* equivalent.
EquivalentNameTools ==
    { << Tool(n1, "d", << >>, c1), Tool(n2, "", << >>, c2) >> :
         n1 \in { "a", "\\u00e9" }, n2 \in { "\\u00e9", Decomposed },
         c1 \in { NoCC, "5m" }, c2 \in { NoCC, "1h" } }

SystemEntry(text, cc) == [text |-> text, cache_control |-> cc]

SystemInputs ==
    { [kind |-> "null"],
      [kind |-> "string", text |-> << "s" >>],
      [kind |-> "array", entries |-> << SystemEntry(<< "s" >>, "5m") >>],
      [kind |-> "array",
       entries |-> << SystemEntry(<< BillingHeader, ": cc" >>, "1h"),
                      SystemEntry(<< "s" >>, NoCC) >>],
      [kind |-> "array", entries |-> << SystemEntry(<< >>, "5m") >>] }

Block(type, text, thinking, cc) ==
    [type |-> type, text |-> text, thinking |-> thinking, cache_control |-> cc]

BlockInputs ==
    { Block("text", "p", "", NoCC),
      Block("text", "p", "", "5m"),
      Block("tool_use", "", "", "1h"),
      Block("thinking", "", "t", NoCC) }

StringContent(text) == [kind |-> "string", text |-> text]

ArrayContent(blocks) == [kind |-> "array", blocks |-> blocks]

Message(content) == [role |-> "user", content |-> content]

\* The messages a client may append to a conversation.
MessageInputs ==
    { Message(StringContent("p")) } \cup
    { Message(ArrayContent(<< b >>)) : b \in BlockInputs }

\* The hashed units of one message: its blocks, or 1 for a string.
UnitsOf(message) ==
    IF message.content.kind = "array" THEN Len(message.content.blocks) ELSE 1

RECURSIVE Units(_)
Units(messages) ==
    IF messages = << >> THEN 0 ELSE UnitsOf(Head(messages)) + Units(Tail(messages))

\* messages without its last block (without its last message when that one
\* is a string or has one block).
DropLastUnit(messages) ==
    LET n    == Len(messages)
        last == messages[n]
    IN  IF last.content.kind = "array" /\ Len(last.content.blocks) > 1
        THEN [messages EXCEPT ![n].content.blocks = SubSeq(@, 1, Len(@) - 1)]
        ELSE SubSeq(messages, 1, n - 1)

\* The requests that may follow req in a conversation: one more message, one
\* more block in the last message, one unit fewer.
FollowUps(req) ==
    LET msgs == req.messages
        n    == Len(msgs)
    IN  (IF Units(msgs) < MaxUnits
              THEN { [req EXCEPT !.messages = Append(msgs, m)] : m \in MessageInputs }
              ELSE {})
        \cup (IF Units(msgs) < MaxUnits /\ n > 0 /\ msgs[n].content.kind = "array"
              THEN { [req EXCEPT !.messages[n].content.blocks = Append(@, b)] :
                       b \in BlockInputs }
              ELSE {})
        \cup (IF n > 0 THEN { [req EXCEPT !.messages = DropLastUnit(msgs)] } ELSE {})

----------------------------------------------------------------------------
(* The computeBreakpoints calls *)

\* The first request of a conversation has tools and a system prompt and no
\* message yet.
InitBreakpoints ==
    /\ tokenizerFails \in BOOLEAN
    /\ \E t \in ToolInputs, y \in SystemInputs :
           request = [tools |-> t, system |-> y, messages |-> << >>]
    /\ breakpoints = computeBreakpoints(request.tools, request.system, request.messages)
    /\ prevRequest = request
    /\ prevBreakpoints = breakpoints

\* A first request whose tools may have canonically equivalent names.
InitBreakpointsNames ==
    /\ tokenizerFails \in BOOLEAN
    /\ \E t \in EquivalentNameTools, y \in { x \in SystemInputs : x.kind # "array" } :
           request = [tools |-> t, system |-> y, messages |-> << >>]
    /\ breakpoints = computeBreakpoints(request.tools, request.system, request.messages)
    /\ prevRequest = request
    /\ prevBreakpoints = breakpoints

\* One call of computeBreakpoints, with the request that follows the last one.
ComputeBreakpointsCall(req) ==
    /\ prevRequest' = request
    /\ prevBreakpoints' = breakpoints
    /\ request' = req
    /\ breakpoints' = computeBreakpoints(req.tools, req.system, req.messages)
    /\ UNCHANGED <<tokenizerFails, cacheVars, grokVars, adapterVars, serviceVars, refreshVars, usageVars, managerVars, hasherVars, attemptVars, supervisorVars, tokenVars, singletonVars>>

\* The contents a client may give a cache_control marker.
MarkerContents == { "5m", "1h" }

\* The request with the content of every cache_control marker replaced; the
\* tools, entries and blocks without marker stay without.
Remarked(req, content) ==
    LET mark(x)  == IF x.cache_control = NoCC THEN x
                    ELSE [x EXCEPT !.cache_control = content[x.cache_control]]
        over(seq) == [i \in 1..Len(seq) |-> mark(seq[i])]
        body(c)  == IF c.kind = "array" THEN [c EXCEPT !.blocks = over(@)] ELSE c
    IN  [tools    |-> over(req.tools),
         system   |-> IF req.system.kind = "array"
                      THEN [req.system EXCEPT !.entries = over(@)]
                      ELSE req.system,
         messages |-> [i \in 1..Len(req.messages) |->
                          [req.messages[i] EXCEPT !.content = body(@)]]]

\* The request with its tools list in reverse order.
Reversed(req) ==
    [req EXCEPT !.tools = [i \in 1..Len(@) |-> @[Len(@) + 1 - i]]]

\* The client sends the request again with other contents in its markers.
RemarkedCall(content) ==
    /\ Remarked(request, content) # request
    /\ ComputeBreakpointsCall(Remarked(request, content))

\* The client sends the request again with its tools in another order.
PermutedCall ==
    /\ Reversed(request) # request
    /\ ComputeBreakpointsCall(Reversed(request))

\* The next request of a short conversation.
ShortFollowUpCall(req) ==
    /\ Units(req.messages) <= MaxVariantUnits
    /\ ComputeBreakpointsCall(req)

\* Conversations in which a request may be repeated with other marker
\* contents or another order of its tools.
NextBreakpointsVariants ==
    \/ \E req \in FollowUps(request) : ShortFollowUpCall(req)
    \/ \E content \in [MarkerContents -> MarkerContents] : RemarkedCall(content)
    \/ PermutedCall

----------------------------------------------------------------------------
(* RedisCacheService: initialize, isAvailable, lookupOrCreate, disconnect    *)
(*                                                                         *)
(* Every await of the code is one step of the model: the store operation   *)
(* takes effect (or throws) and the code runs on to its next await.        *)

NoClient == "null"

NoEntry == [value |-> "", ttl |-> 0]

Hashes == { "h0", "h1", "h2" }

SessionIds == { "s1" }

\* `cache:${sessionId}:${hash}`
CacheKey(sessionId, hash) == "cache:" \o sessionId \o ":" \o hash

Keys == { CacheKey(sid, h) : sid \in SessionIds, h \in Hashes }

Breakpoint(hash, tokens, ttl) == [hash |-> hash, tokens |-> tokens, ttl |-> ttl]

\* Breakpoint lists of requests over one prompt: "h0" is the hash at a marker
\* before any text (no token yet), "h1" and "h2" the hashes of two longer
\* prefixes.
BreakpointInputs ==
    { << Breakpoint("h1", 100, DEFAULT_TTL_SECS), Breakpoint("h2", 150, DEFAULT_TTL_SECS) >>,
      << Breakpoint("h0", 0, DEFAULT_TTL_SECS), Breakpoint("h1", 100, EXTENDED_TTL_SECS) >>,
      << >> }

TotalTokenInputs == { 200 }

\* What the store keeps for setex(key, ttl, tokens): the number in decimal.
RedisString(n) == ToString(n)

\* parseInt(cachedTokens, 10)
parseInt(str) == CHOOSE n \in 0..200 : ToString(n) = str

CallIds == { 1, 2 }

IdleCall ==
    [pc |-> "idle", sessionId |-> "", bps |-> << >>, total |-> 0,
     i |-> 0, j |-> 0, prevTokens |-> 0,
     read |-> 0, creation |-> 0, uncached |-> 0,
     \* What the call did, for the properties:
     available |-> FALSE,  \* isAvailable() held when it started
     touched   |-> FALSE,  \* it issued a store operation
     hit       |-> 0,      \* the breakpoint whose key its scan found
     hitValue  |-> 0,      \* the value stored under that key
     refreshed |-> FALSE,  \* its expire left the hit key with the breakpoint's ttl
     createAll |-> FALSE,  \* it entered the create-all loop
     rewrote   |-> FALSE,  \* it set and counted a breakpoint not after its hit
     counted   |-> {},     \* the keys it counted as created, still in the store
     errors    |-> FALSE,  \* one of its store operations threw
     quiet     |-> TRUE,   \* nothing else happened since it started
     repeat    |-> FALSE]  \* it repeats the call before it, which was quiet

\* isAvailable()
isAvailable == client # NoClient /\ client = "ready"

\* A store operation can succeed only on a ready connection; it can fail at
\* any time (connection lost, command timeout, no client after disconnect).
CanSucceed == client = "ready"

InitCache ==
    /\ isEnabled \in BOOLEAN
    /\ isInitialized = FALSE
    /\ client = NoClient
    /\ initPc = "idle"
    /\ initOutcome = "none"
    /\ store = [k \in Keys |-> NoEntry]
    /\ calls = [c \in CallIds |-> IdleCall]
    /\ lastSlot = 0

CacheAtRest == InitCache /\ isEnabled = FALSE

\* Something outside a call happened (a key expired, the connection changed,
\* another call started): no call in flight, nor one that has returned, is
\* part of an undisturbed sequence any more.
Disturbed(cs) ==
    [c \in CallIds |-> IF cs[c].pc = "idle" THEN cs[c] ELSE [cs[c] EXCEPT !.quiet = FALSE]]

----------------------------------------------------------------------------
(* initialize() and disconnect() *)

\* initialize() up to its first await: returns at once when initialised or
\* disabled, else creates the client and awaits connect().
InitializeCall ==
    /\ initPc = "idle"
    /\ ~isInitialized
    /\ IF ~isEnabled
       THEN /\ isInitialized' = TRUE
            /\ initOutcome' = "ok"
            /\ UNCHANGED <<client, initPc>>
       ELSE /\ client' = "connecting"
            /\ initPc' = "connect"
            /\ initOutcome' = "none"
            /\ UNCHANGED isInitialized
    /\ UNCHANGED <<bpVars, grokVars, adapterVars, serviceVars, refreshVars, isEnabled, store, calls, lastSlot, usageVars, managerVars, hasherVars, attemptVars, supervisorVars, tokenVars, singletonVars>>

\* initialize() with its catch block left out: the failure leaves initialize
\* as a rejection.
InitializeUncaught == [client |-> client, isInitialized |-> FALSE, outcome |-> "rejected"]

\* The catch block of initialize(): this.client = null, then
\* this.isInitialized = true after it.
InitializeCatch == [client |-> NoClient, isInitialized |-> TRUE, outcome |-> "failed"]

\* await this.client.connect() returns or throws.
ConnectReply(ok) ==
    /\ initPc = "connect"
    /\ IF ok
       THEN /\ client' = "ready"
            /\ initPc' = "ping"
            /\ UNCHANGED <<isInitialized, initOutcome>>
       ELSE /\ client' = InitializeCatch.client
            /\ isInitialized' = InitializeCatch.isInitialized
            /\ initOutcome' = InitializeCatch.outcome
            /\ initPc' = "idle"
    /\ calls' = Disturbed(calls)
    /\ UNCHANGED <<bpVars, grokVars, adapterVars, serviceVars, refreshVars, isEnabled, store, lastSlot, usageVars, managerVars, hasherVars, attemptVars, supervisorVars, tokenVars, singletonVars>>

\* await this.client.ping() returns or throws.
PingReply(ok) ==
    /\ initPc = "ping"
    /\ client # NoClient
    /\ IF ok /\ CanSucceed
       THEN /\ isInitialized' = TRUE
            /\ initOutcome' = "ok"
            /\ UNCHANGED <<client, calls>>
       ELSE /\ client' = InitializeCatch.client
            /\ isInitialized' = InitializeCatch.isInitialized
            /\ initOutcome' = InitializeCatch.outcome
            /\ calls' = Disturbed(calls)
    /\ initPc' = "idle"
    /\ UNCHANGED <<bpVars, grokVars, adapterVars, serviceVars, refreshVars, isEnabled, store, lastSlot, usageVars, managerVars, hasherVars, attemptVars, supervisorVars, tokenVars, singletonVars>>

\* disconnect(): quit (its error is caught), this.client = null,
\* this.isInitialized = false.
Disconnect ==
    /\ initPc = "idle"
    /\ isInitialized
    /\ client' = NoClient
    /\ isInitialized' = FALSE
    /\ initOutcome' = "none"
    /\ calls' = Disturbed(calls)
    /\ UNCHANGED <<bpVars, grokVars, adapterVars, serviceVars, refreshVars, isEnabled, initPc, store, lastSlot, usageVars, managerVars, hasherVars, attemptVars, supervisorVars, tokenVars, singletonVars>>

\* The store drops a key whose TTL ran out.
ExpireKey(k) ==
    /\ store[k] # NoEntry
    /\ store' = [store EXCEPT ![k] = NoEntry]
    /\ calls' = [c \in CallIds |->
                    IF calls[c].pc = "idle" THEN calls[c]
                    ELSE [calls[c] EXCEPT !.quiet = FALSE, !.counted = @ \ {k}]]
    /\ UNCHANGED <<bpVars, grokVars, adapterVars, serviceVars, refreshVars, isEnabled, isInitialized, client, initPc, initOutcome, lastSlot, usageVars, managerVars, hasherVars, attemptVars, supervisorVars, tokenVars, singletonVars>>

----------------------------------------------------------------------------
(* lookupOrCreate(sessionId, breakpoints, totalTokens) *)

KeyAt(call, idx) == CacheKey(call.sessionId, call.bps[idx].hash)

\* The call issued a store operation, which threw or not.
Issued(call, ok) ==
    IF ok THEN [call EXCEPT !.touched = TRUE]
    ELSE [call EXCEPT !.touched = TRUE, !.errors = TRUE, !.quiet = FALSE]

\* The call has returned: its loop variables are gone.
Returned(call) == [call EXCEPT !.pc = "done", !.i = 0, !.j = 0, !.prevTokens = 0]

\* return defaultResult
DefaultResult(call) ==
    Returned([call EXCEPT !.read = 0, !.creation = 0, !.uncached = call.total])

\* uncached_input_tokens = Math.max(0, totalTokens - cachedTokens); return result
Result(call) ==
    Returned([call EXCEPT !.uncached = Max(0, call.total - (call.read + call.creation))])

\* setex that stores nothing.
StoreSetexLost(st, key, ttl, tokens) == st

\* The store after setex(key, ttl, tokens).
StoreSetex(st, key, ttl, tokens) ==
    [st EXCEPT ![key] = [value |-> RedisString(tokens), ttl |-> ttl]]

\* The store after expire(key, ttl): a key that is gone stays gone.
StoreExpire(st, key, ttl) ==
    IF st[key] = NoEntry THEN st ELSE [st EXCEPT ![key].ttl = ttl]

\* After the scan loop: "if no cache hit, create all breakpoints" is decided
\* by result.cache_read_input_tokens === 0.
AfterScan(call) ==
    IF call.read = 0 /\ Len(call.bps) > 0
    THEN [call EXCEPT !.pc = "setexAll", !.j = 1, !.prevTokens = 0, !.createAll = TRUE]
    ELSE Result(call)

\* The scan loop's i--, or its end.
NextScan(call) ==
    IF call.i > 1 THEN [call EXCEPT !.i = @ - 1] ELSE AfterScan(call)

\* The call in slot c goes on as next; it has returned when next is done.
Advance(c, next, others) ==
    /\ calls' = [others EXCEPT ![c] = next]
    /\ lastSlot' = IF next.pc = "done" THEN c ELSE lastSlot

InFlight(c) == calls[c].pc \notin { "idle", "done" }

\* lookupOrCreate up to its first await: the default result when the store is
\* not available or there is no breakpoint, else the first get of the scan
\* from the last breakpoint. (Slot 2 serves a call that arrives while slot 1
\* is busy.)
StartLookup(c, sid, bps, total) ==
    LET alone == \A d \in CallIds \ {c} : ~InFlight(d)
        last  == IF lastSlot = 0 THEN IdleCall ELSE calls[lastSlot]
        call  == [IdleCall EXCEPT
                    !.sessionId = sid, !.bps = bps, !.total = total,
                    !.available = isAvailable,
                    !.quiet = alone,
                    !.repeat = /\ alone
                               /\ last.pc = "done"
                               /\ last.quiet
                               /\ last.available
                               /\ last.sessionId = sid
                               /\ last.bps = bps
                               /\ last.total = total]
    IN  /\ ~InFlight(c)
        /\ \A d \in CallIds : d < c => InFlight(d)
        /\ IF ~isAvailable \/ Len(bps) = 0
           THEN Advance(c, DefaultResult(call), calls)
           ELSE Advance(c, [call EXCEPT !.pc = "get", !.i = Len(bps)], Disturbed(calls))
        /\ UNCHANGED <<bpVars, grokVars, adapterVars, serviceVars, refreshVars, isEnabled, isInitialized, client, initPc, initOutcome, store, usageVars, managerVars, hasherVars, attemptVars, supervisorVars, tokenVars, singletonVars>>

\* await this.client.get(key) returns or throws (caught: the scan goes on).
GetReply(c, ok) ==
    LET call == Issued(calls[c], ok)
        key  == KeyAt(call, call.i)
    IN  /\ call.pc = "get"
        /\ ok => CanSucceed
        /\ IF ~ok \/ store[key] = NoEntry
           THEN Advance(c, NextScan(call), calls)
           ELSE LET cachedValue == parseInt(store[key].value)
                IN  Advance(c, [call EXCEPT !.pc = "expire", !.read = cachedValue,
                                            !.hit = call.i, !.hitValue = cachedValue],
                            calls)
        /\ UNCHANGED <<bpVars, grokVars, adapterVars, serviceVars, refreshVars, isEnabled, isInitialized, client, initPc, initOutcome, store, usageVars, managerVars, hasherVars, attemptVars, supervisorVars, tokenVars, singletonVars>>

\* await this.client.expire(key, bp.ttl) returns or throws (caught); then the
\* loop over the later breakpoints starts, or the scan loop is left.
ExpireReply(c, ok) ==
    LET call == Issued(calls[c], ok)
        key  == KeyAt(call, call.i)
        ttl  == call.bps[call.i].ttl
        next == [call EXCEPT !.prevTokens = call.hitValue, !.j = call.i + 1,
                             !.refreshed = ok /\ store[key] # NoEntry]
    IN  /\ call.pc = "expire"
        /\ ok => CanSucceed
        /\ store' = IF ok THEN StoreExpire(store, key, ttl) ELSE store
        /\ IF next.j <= Len(call.bps)
           THEN Advance(c, [next EXCEPT !.pc = "setexLater"], calls)
           ELSE Advance(c, AfterScan(next), calls)
        /\ UNCHANGED <<bpVars, grokVars, adapterVars, serviceVars, refreshVars, isEnabled, isInitialized, client, initPc, initOutcome, usageVars, managerVars, hasherVars, attemptVars, supervisorVars, tokenVars, singletonVars>>

\* await this.client.setex(key, bp.ttl, bp.tokens) returns or throws (caught);
\* either way the breakpoint's additional tokens are added to
\* cache_creation_input_tokens.
SetexReply(c, ok, pc) ==
    LET call == Issued(calls[c], ok)
        bp   == call.bps[call.j]
        key  == KeyAt(call, call.j)
        next == [call EXCEPT !.creation = @ + (bp.tokens - call.prevTokens),
                             !.prevTokens = bp.tokens,
                             !.j = @ + 1,
                             !.rewrote = @ \/ call.j <= call.hit,
                             !.counted = IF call.errors THEN @ ELSE @ \cup {key}]
    IN  /\ call.pc = pc
        /\ ok => CanSucceed
        /\ store' = IF ok THEN StoreSetex(store, key, bp.ttl, bp.tokens) ELSE store
        /\ IF next.j <= Len(call.bps)
           THEN Advance(c, next, calls)
           ELSE IF pc = "setexLater"
           THEN Advance(c, AfterScan(next), calls)
           ELSE Advance(c, Result(next), calls)
        /\ UNCHANGED <<bpVars, grokVars, adapterVars, serviceVars, refreshVars, isEnabled, isInitialized, client, initPc, initOutcome, usageVars, managerVars, hasherVars, attemptVars, supervisorVars, tokenVars, singletonVars>>

\* The setex of the loop over the breakpoints after the hit.
SetexLaterReply(c, ok) == SetexReply(c, ok, "setexLater")

\* The setex of the loop that creates all breakpoints.
SetexAllReply(c, ok) == SetexReply(c, ok, "setexAll")

NextCache ==
    \/ InitializeCall
    \/ \E ok \in BOOLEAN : ConnectReply(ok)
    \/ \E ok \in BOOLEAN : PingReply(ok)
    \/ Disconnect
    \/ \E k \in Keys : ExpireKey(k)
    \/ \E c \in CallIds, sid \in SessionIds, bps \in BreakpointInputs,
          total \in TotalTokenInputs : StartLookup(c, sid, bps, total)
    \/ \E c \in CallIds, ok \in BOOLEAN : GetReply(c, ok)
    \/ \E c \in CallIds, ok \in BOOLEAN : ExpireReply(c, ok)
    \/ \E c \in CallIds, ok \in BOOLEAN : SetexLaterReply(c, ok)
    \/ \E c \in CallIds, ok \in BOOLEAN : SetexAllReply(c, ok)

\* What the store may hold under a key when the service connects: nothing,
\* the token count of this tokenizer for the prefix of "h1", or a larger
\* count that another count of the same prefix has left (countTokens falls
\* back to the length divided by four when the tokenizer throws).
StoredEntries ==
    { NoEntry,
      [value |-> RedisString(100), ttl |-> DEFAULT_TTL_SECS],
      [value |-> RedisString(160), ttl |-> DEFAULT_TTL_SECS] }

\* The service is connected to a store that holds entries of earlier runs.
InitCacheStored ==
    /\ isEnabled = TRUE
    /\ isInitialized = TRUE
    /\ client = "ready"
    /\ initPc = "idle"
    /\ initOutcome = "ok"
    /\ store \in [Keys -> StoredEntries]
    /\ calls = [c \in CallIds |-> IdleCall]
    /\ lastSlot = 0

\* lookupOrCreate calls, one at a time, on a connected service.
NextCacheStored ==
    \/ Disconnect
    \/ \E sid \in SessionIds, bps \in BreakpointInputs, total \in TotalTokenInputs :
          StartLookup(1, sid, bps, total)
    \/ \E ok \in BOOLEAN : GetReply(1, ok)
    \/ \E ok \in BOOLEAN : ExpireReply(1, ok)
    \/ \E ok \in BOOLEAN : SetexLaterReply(1, ok)
    \/ \E ok \in BOOLEAN : SetexAllReply(1, ok)

----------------------------------------------------------------------------
(* Grok stream conversion: GrokApiService.generateContentStream yields the  *)
(* upstream's events and a last synthetic one; each goes through            *)
(* GrokConverter.toOpenAIStreamChunk, whose chunks go to the client.        *)

\* null or undefined, where a text may stand.
NullStr == << "null" >>

OpenTag == "<tool_call>"

CloseTag == "</tool_call>"

\* An internal tag with its content, such as <rolloutId>7</rolloutId>.
InternalTag == "<rolloutId>7</rolloutId>"

\* The JSON text {"name":"search","arguments":{"q":"x"}}
Body == "{\"name\":\"search\",\"arguments\":{\"q\":\"x\"}}"

\* The tokens the upstream sends.
TokHello == << "H", " " >>
TokDone == << " ", "d" >>
TokTagged == << "k", InternalTag >>
TokOpen == << OpenTag >>
TokBody == << Body >>
TokClose == << CloseTag >>
Tokens == { TokHello, TokDone, TokTagged, TokOpen, TokBody, TokClose }

\* Index of the first sym in str at or after from; 0 when there is none.
IndexOf(str, sym, from) ==
    IF \E i \in from..Len(str) : str[i] = sym
    THEN CHOOSE i \in from..Len(str) :
             str[i] = sym /\ \A k \in from..(i - 1) : str[k] # sym
    ELSE 0

\* String.prototype.includes
StrIncludes(str, sym) == IndexOf(str, sym, 1) # 0

\* str.split(sym)[0]
SplitFirst(str, sym) ==
    LET at == IndexOf(str, sym, 1)
    IN  IF at = 0 THEN str ELSE SubSeq(str, 1, at - 1)

\* str.split(sym)[1] || ""
SplitSecond(str, sym) ==
    LET at   == IndexOf(str, sym, 1)
        next == IF at = 0 THEN 0 ELSE IndexOf(str, sym, at + 1)
    IN  IF at = 0 THEN << >>
        ELSE IF next = 0 THEN SubSeq(str, at + 1, Len(str))
        ELSE SubSeq(str, at + 1, next - 1)

\* String.prototype.trim
Trim(str) ==
    LET inked == { i \in 1..Len(str) : str[i] # " " }
    IN  IF inked = {} THEN << >>
        ELSE SubSeq(str, CHOOSE i \in inked : \A k \in inked : i <= k,
                         CHOOSE i \in inked : \A k \in inked : i >= k)

\* _filterToken: the internal tags are removed with their content.
FilterToken(token) == SelectSeq(token, LAMBDA sym : sym # InternalTag)

RECURSIVE ToolCallMatches(_, _)
\* content.matchAll(/<tool_call>\s*(.*?)\s*<\/tool_call>/gs) from position
\* from on: each match as <<place of its open tag, place of its close tag>>.
ToolCallMatches(content, from) ==
    LET open  == IndexOf(content, OpenTag, from)
        close == IF open = 0 THEN 0 ELSE IndexOf(content, CloseTag, open + 1)
    IN  IF close = 0 THEN << >>
        ELSE << <<open, close>> >> \o ToolCallMatches(content, close + 1)

\* JSON.parse(match[1].trim()) gives an object with a name.
ParsesToCall(inner) == Trim(inner) = << Body >>

\* The tool call built of the parsed body (its id is a fresh call_ id).
ToolCall == [type |-> "function", name |-> "search", arguments |-> "{\"q\":\"x\"}"]

RECURSIVE RemoveMatches(_, _, _)
\* content with each match replaced by "", from the last match to the first.
RemoveMatches(content, matches, n) ==
    IF n = 0 THEN content
    ELSE RemoveMatches(SubSeq(content, 1, matches[n][1] - 1)
                           \o SubSeq(content, matches[n][2] + 1, Len(content)),
                       matches, n - 1)

\* parseToolCalls(content)
parseToolCalls(content) ==
    LET matches   == ToolCallMatches(content, 1)
        parsed    == SelectSeq(matches,
                         LAMBDA m : ParsesToCall(SubSeq(content, m[1] + 1, m[2] - 1)))
        toolCalls == [i \in 1..Len(parsed) |-> ToolCall]
        text      == Trim(RemoveMatches(content, matches, Len(matches)))
    IN  IF content = << >> \/ toolCalls = << >>
        THEN [text |-> content, toolCalls |-> << >>]
        ELSE [text |-> IF text = << >> THEN NullStr ELSE text, toolCalls |-> toolCalls]

\* uuidv4(): the n-th value drawn.
Uuid(n) == "uuid" \o ToString(n)

\* id.startsWith('chatcmpl-'), for the ids of the model.
StartsWithChatcmpl(id) == id \in { "chatcmpl-r1" }

\* _formatResponseId that gives every response the same id.
FormatResponseIdShared(id, n) == "chatcmpl-shared"

\* _formatResponseId(id), n uuids drawn before.
FormatResponseId(id, n) ==
    IF id = "" THEN "chatcmpl-" \o Uuid(n + 1)
    ELSE IF StartsWithChatcmpl(id) THEN id
    ELSE "chatcmpl-" \o id

\* The state _getState creates.
NewState == [role_sent |-> FALSE, content_buffer |-> << >>,
             has_tool_call |-> FALSE, in_tool_call |-> FALSE,
             image_think_active |-> FALSE, video_think_active |-> FALSE]

\* _getState(requestId): the state kept under the id, created when missing.
GetState(states, requestId) ==
    IF requestId \in DOMAIN states THEN states[requestId] ELSE NewState

\* A chat.completion.chunk with one choice.
Chunk(id, role, content, toolCalls, finish) ==
    [id |-> id, role |-> role, content |-> content, tool_calls |-> toolCalls,
     finish_reason |-> finish, reasoning_content |-> << >>]

\* The chunk of a delta with content, reasoning_content or both; a text that
\* is empty is left out of the delta.
DeltaChunk(id, content, reasoning) ==
    [Chunk(id, "", IF content = << >> THEN NullStr ELSE content, << >>, "")
        EXCEPT !.reasoning_content = reasoning]

\* The chunk of step 0, sent when the state has not sent the role yet.
RoleChunks(id, state) ==
    IF state.role_sent THEN << >> ELSE << Chunk(id, "assistant", << >>, << >>, "") >>

\* The isDone branch: the buffer's tool calls go out with what is left of its
\* text, else a stop; the state is deleted.
DoneChunk(id, state) ==
    LET parsed == parseToolCalls(state.content_buffer)
        text   == IF parsed.text = NullStr THEN << >> ELSE Trim(parsed.text)
    IN  IF parsed.toolCalls # << >>
        THEN Chunk(id, "", IF text = << >> THEN NullStr ELSE text,
                   parsed.toolCalls, "tool_calls")
        ELSE Chunk(id, "", NullStr, << >>, "stop")

\* Step 5, a token outside thinking: what of it goes out, and the state after.
TokenStep(state, token) ==
    LET filtered == FilterToken(token)
        opens    == StrIncludes(filtered, OpenTag)
        closes   == ~opens /\ state.in_tool_call /\ StrIncludes(filtered, CloseTag)
        output   == IF opens THEN SplitFirst(filtered, OpenTag)
                    ELSE IF closes THEN SplitSecond(filtered, CloseTag)
                    ELSE IF state.in_tool_call THEN << >>
                    ELSE filtered
    IN  [deltaContent |-> output,
         state |-> [state EXCEPT
                      !.in_tool_call = IF opens THEN TRUE ELSE IF closes THEN FALSE ELSE @,
                      !.has_tool_call = @ \/ opens,
                      !.content_buffer = @ \o filtered]]

\* The progress line of streamingImageGenerationResponse, as one symbol.
ImageProgressText == "image progress"

\* The progress line of streamingVideoGenerationResponse, as one symbol.
VideoProgressText == "video progress"

\* _renderVideo(videoUrl, thumbnailImageUrl), as one symbol.
VideoHtml == "<video>"

\* Steps 1 to 3: image progress, video progress, model response. What they
\* add to the delta, and the state after.
ProgressSteps(state, grokChunk) ==
    LET img == [state EXCEPT !.image_think_active = @ \/ grokChunk.image]
        vid == [img EXCEPT !.video_think_active =
                               IF grokChunk.video = "done" THEN FALSE
                               ELSE @ \/ grokChunk.video = "progress"]
        mr  == IF grokChunk.modelResponse
               THEN [vid EXCEPT !.image_think_active = FALSE,
                                !.video_think_active = FALSE]
               ELSE vid
    IN  [deltaContent   |-> IF grokChunk.video = "done" THEN << VideoHtml >> ELSE << >>,
         deltaReasoning |-> (IF grokChunk.image THEN << ImageProgressText >> ELSE << >>)
                            \o (IF grokChunk.video # "" THEN << VideoProgressText >>
                                ELSE << >>),
         state          |-> mr]

\* Step 5 without the thinking branch: every token is treated as content.
AnyTokenStepNoThink(state, grokChunk) ==
    IF grokChunk.token = NullStr
    THEN [deltaContent |-> << >>, deltaReasoning |-> << >>, state |-> state]
    ELSE [deltaContent   |-> TokenStep(state, grokChunk.token).deltaContent,
          deltaReasoning |-> << >>,
          state          |-> TokenStep(state, grokChunk.token).state]

\* Step 5: a token goes to the reasoning while thinking or while an image or
\* a video is being generated, else through the tool-call suppression to the
\* content and into the content buffer.
AnyTokenStep(state, grokChunk) ==
    LET inThink == \/ grokChunk.isThinking
                   \/ state.image_think_active
                   \/ state.video_think_active
    IN  IF grokChunk.token = NullStr
        THEN [deltaContent |-> << >>, deltaReasoning |-> << >>, state |-> state]
        ELSE IF inThink
        THEN [deltaContent |-> << >>, deltaReasoning |-> FilterToken(grokChunk.token),
              state |-> state]
        ELSE [deltaContent   |-> TokenStep(state, grokChunk.token).deltaContent,
              deltaReasoning |-> << >>,
              state          |-> TokenStep(state, grokChunk.token).state]

\* toOpenAIStreamChunk(grokChunk, model) with the states and the uuid count
\* it finds: the chunks it returns and the states and count it leaves.
toOpenAIStreamChunk(grokChunk, states, n) ==
    LET responseId == FormatResponseId(grokChunk.responseId, n)
        drawn      == IF grokChunk.responseId = "" THEN n + 1 ELSE n
        state      == GetState(states, responseId)
        roleChunks == RoleChunks(responseId, state)
        sent       == [state EXCEPT !.role_sent = TRUE]
    IN  IF grokChunk.isDone
        THEN [chunks |-> Append(roleChunks, DoneChunk(responseId, sent)),
              states |-> [k \in DOMAIN states \ {responseId} |-> states[k]],
              uuids  |-> drawn]
        ELSE LET progress  == ProgressSteps(sent, grokChunk)
                 step      == AnyTokenStep(progress.state, grokChunk)
                 content   == progress.deltaContent \o step.deltaContent
                 reasoning == progress.deltaReasoning \o step.deltaReasoning
             IN  [chunks |-> IF content = << >> /\ reasoning = << >> THEN roleChunks
                             ELSE Append(roleChunks,
                                         DeltaChunk(responseId, content, reasoning)),
                  states |-> [k \in DOMAIN states \cup {responseId} |->
                                 IF k = responseId THEN step.state ELSE states[k]],
                  uuids  |-> drawn]

\* An event of the upstream: result.response with its token, isDone and
\* responseId ("" when it carries none).
Event(token, isDone, responseId) ==
    [token |-> token, isDone |-> isDone, responseId |-> responseId,
     isThinking |-> FALSE, image |-> FALSE, video |-> "", modelResponse |-> FALSE]

\* A token with isThinking: true.
ThinkingEvent(token, responseId) ==
    [Event(token, FALSE, responseId) EXCEPT !.isThinking = TRUE]

\* A streamingImageGenerationResponse.
ImageEvent(responseId) == [Event(NullStr, FALSE, responseId) EXCEPT !.image = TRUE]

\* A streamingVideoGenerationResponse: in progress, or at progress 100 with
\* its videoUrl ("done").
VideoEvent(video, responseId) == [Event(NullStr, FALSE, responseId) EXCEPT !.video = video]

\* A modelResponse (without images).
ModelResponseEvent(responseId) ==
    [Event(NullStr, FALSE, responseId) EXCEPT !.modelResponse = TRUE]

NoStates == [k \in {} |-> NewState]

\* generateContent: its collected object before the loop.
NothingCollected == [message |-> << >>, responseId |-> "", finalVideoUrl |-> FALSE]

\* generateContent: the body of its loop over the stream's chunks.
Collect(c, resp) ==
    [c EXCEPT !.message = IF resp.token # NullStr /\ resp.token # << >>
                          THEN @ \o resp.token ELSE @,
              !.responseId = IF resp.responseId # "" THEN resp.responseId ELSE @,
              !.finalVideoUrl = @ \/ resp.video = "done"]

\* No response (yet).
NoResponse == [id |-> "", content |-> NullStr, tool_calls |-> << >>, finish_reason |-> ""]

\* toOpenAIResponse(grokResponse, model), n uuids drawn before.
toOpenAIResponse(grokResponse, n) ==
    LET content == FilterToken(grokResponse.message)
                   \o (IF grokResponse.finalVideoUrl THEN << VideoHtml >> ELSE << >>)
        parsed  == parseToolCalls(content)
    IN  [id |-> IF grokResponse.responseId # "" THEN grokResponse.responseId
                ELSE "chatcmpl-" \o Uuid(n + 1),
         content |-> parsed.text,
         tool_calls |-> parsed.toolCalls,
         finish_reason |-> IF parsed.toolCalls # << >> THEN "tool_calls" ELSE "stop"]

\* No error thrown.
NoError == [status |-> 0, message |-> "", shouldSwitchCredential |-> FALSE]

\* An error of axios with the HTTP status of the response; 0 when there is no
\* response (error.response?.status undefined).
AxiosError(status) ==
    [status |-> status, message |-> "Request failed", shouldSwitchCredential |-> FALSE]

\* The stream of the response body fails while it is read.
ReadFailure == AxiosError(0)

\* new Error('Grok returned HTML instead of SSE. ...')
HtmlError ==
    [status |-> 0, message |-> "Grok returned HTML instead of SSE",
     shouldSwitchCredential |-> FALSE]

\* handleApiError: the error it throws.
handleApiError(error) ==
    IF error.status = 401 \/ error.status = 403
    THEN [error EXCEPT !.shouldSwitchCredential = TRUE,
                       !.message = "Grok authentication failed"]
    ELSE error

\* Content types of a chat response: those of an event stream, an HTML page,
\* another type, and no header.
EventStreamTypes == { "text/event-stream", "application/x-ndjson", "application/json" }
HtmlTypes == { "text/html; charset=utf-8" }
ContentTypes == EventStreamTypes \cup HtmlTypes \cup { "text/plain", "" }

\* No generateContentStream call is before its response.
AdapterAtRest ==
    /\ attachments = 0
    /\ attached = 0
    /\ contentType = "text/event-stream"
    /\ thrown = NoError

\* No second stream.
NoOther == [pc |-> "closed", lastResponseId |-> "final", yielded |-> << >>,
            emitted |-> << >>]

InitGrok ==
    /\ other = NoOther
    /\ streamId \in { "r1", "chatcmpl-r1" }
    /\ streamPc = "reading"
    /\ lastResponseId = "final"
    /\ yielded = << >>
    /\ requestStates = NoStates
    /\ uuidCount = 0
    /\ emitted = << >>
    /\ origin = << >>
    /\ collected = NothingCollected
    /\ response = NoResponse

GrokAtRest ==
    /\ other = NoOther
    /\ streamId = "r1"
    /\ streamPc = "closed"
    /\ lastResponseId = "final"
    /\ yielded = << >>
    /\ requestStates = NoStates
    /\ uuidCount = 0
    /\ emitted = << >>
    /\ origin = << >>
    /\ collected = NothingCollected
    /\ response = NoResponse

\* The consumer of the stream hands the event to toOpenAIStreamChunk and
\* sends on the chunks it returns.
Convert(event) ==
    LET out == toOpenAIStreamChunk(event, requestStates, uuidCount)
    IN  /\ emitted' = emitted \o out.chunks
        /\ origin' = origin \o [i \in 1..Len(out.chunks) |-> Len(yielded) + 1]
        /\ collected' = Collect(collected, event)
        /\ requestStates' = out.states
        /\ uuidCount' = out.uuids

\* generateContentStream reads a line, keeps its responseId as
\* lastResponseId and yields it.
Yield(event) ==
    /\ streamPc = "reading"
    /\ Len(yielded) < MaxEvents
    /\ lastResponseId' = IF event.responseId # "" THEN event.responseId ELSE lastResponseId
    /\ yielded' = Append(yielded, event)
    /\ Convert(event)
    /\ UNCHANGED <<streamId, streamPc, response, other, bpVars, cacheVars, serviceVars, refreshVars, adapterVars, usageVars, managerVars, hasherVars, attemptVars, supervisorVars, tokenVars, singletonVars>>

\* The upstream sends a token, with the stream's responseId or with none.
UpstreamToken(token, carriesId) ==
    Yield(Event(token, FALSE, IF carriesId THEN streamId ELSE ""))

\* The upstream sends its own finalisation marker.
UpstreamDone(carriesId) ==
    Yield(Event(NullStr, TRUE, IF carriesId THEN streamId ELSE ""))

\* The upstream ends ([DONE] or end of input): generateContentStream yields
\* its final chunk {isDone: true, responseId: lastResponseId}.
EndOfStream ==
    /\ streamPc = "reading"
    /\ streamPc' = "closed"
    /\ Convert(Event(NullStr, TRUE, lastResponseId))
    /\ response' = toOpenAIResponse(collected', uuidCount)
    /\ UNCHANGED <<streamId, lastResponseId, yielded, other, bpVars, cacheVars, serviceVars, refreshVars, adapterVars, usageVars, managerVars, hasherVars, attemptVars, supervisorVars, tokenVars, singletonVars>>

\* Reading the upstream fails: handleApiError throws and no final chunk is
\* yielded.
StreamError ==
    /\ streamPc = "reading"
    /\ streamPc' = "failed"
    /\ thrown' = handleApiError(ReadFailure)
    /\ UNCHANGED <<streamId, lastResponseId, yielded, requestStates, uuidCount, emitted,
                   origin, collected, response, other, bpVars, cacheVars, serviceVars, refreshVars,
                   attachments, attached, contentType, usageVars, managerVars, hasherVars, attemptVars, supervisorVars, tokenVars, singletonVars>>

NextGrok ==
    \/ \E token \in Tokens, carriesId \in BOOLEAN : UpstreamToken(token, carriesId)
    \/ \E carriesId \in BOOLEAN : UpstreamDone(carriesId)
    \/ EndOfStream
    \/ StreamError

\* The responseId the upstream gives the second stream's events.
OtherId == "r2"

\* The tokens of two streams converted side by side.
PairTokens == { TokHello, TokOpen, TokBody, TokClose }

\* Two streams start together on one converter.
InitGrokPair ==
    /\ other = [NoOther EXCEPT !.pc = "reading"]
    /\ streamId = "r1"
    /\ streamPc = "reading"
    /\ lastResponseId = "final"
    /\ yielded = << >>
    /\ requestStates = NoStates
    /\ uuidCount = 0
    /\ emitted = << >>
    /\ origin = << >>
    /\ collected = NothingCollected
    /\ response = NoResponse

\* The first stream's upstream sends a token.
PairToken(token) == Len(yielded) < MaxPairEvents /\ UpstreamToken(token, TRUE)

\* The second stream's consumer hands the event to the same converter.
OtherConvert(event, pc, last, events) ==
    LET out == toOpenAIStreamChunk(event, requestStates, uuidCount)
    IN  /\ other' = [pc |-> pc, lastResponseId |-> last, yielded |-> events,
                     emitted |-> other.emitted \o out.chunks]
        /\ requestStates' = out.states
        /\ uuidCount' = out.uuids
        /\ UNCHANGED <<streamId, streamPc, lastResponseId, yielded, emitted, origin,
                       collected, response, bpVars, cacheVars, serviceVars, refreshVars, adapterVars, usageVars, managerVars, hasherVars, attemptVars, supervisorVars, tokenVars, singletonVars>>

\* The second stream's upstream sends a token.
OtherToken(token) ==
    /\ other.pc = "reading"
    /\ Len(other.yielded) < MaxPairEvents
    /\ OtherConvert(Event(token, FALSE, OtherId), "reading", OtherId,
                    Append(other.yielded, Event(token, FALSE, OtherId)))

\* The second stream's upstream ends.
OtherEndOfStream ==
    /\ other.pc = "reading"
    /\ OtherConvert(Event(NullStr, TRUE, other.lastResponseId), "closed",
                    other.lastResponseId, other.yielded)

\* Two streams with different response ids, their events interleaved.
NextGrokPair ==
    \/ \E token \in PairTokens : PairToken(token)
    \/ EndOfStream
    \/ \E token \in PairTokens : OtherToken(token)
    \/ OtherEndOfStream

\* A generateContentStream call with its attachments to upload.
InitGrokConnect ==
    /\ attachments \in 0..MaxAttachments
    /\ attached = 0
    /\ contentType = ""
    /\ thrown = NoError
    /\ other = NoOther
    /\ streamId = "r1"
    /\ streamPc = IF attachments = 0 THEN "connecting" ELSE "uploading"
    /\ lastResponseId = "final"
    /\ yielded = << >>
    /\ requestStates = NoStates
    /\ uuidCount = 0
    /\ emitted = << >>
    /\ origin = << >>
    /\ collected = NothingCollected
    /\ response = NoResponse

\* uploadFile returns: the fileMetadataId when the upload succeeded, null when
\* axios rejected (the catch of uploadFile logs and returns null).
UploadReply(status) ==
    /\ streamPc = "uploading"
    /\ attachments' = attachments - 1
    /\ attached' = IF status = 200 THEN attached + 1 ELSE attached
    /\ streamPc' = IF attachments = 1 THEN "connecting" ELSE "uploading"
    /\ UNCHANGED <<streamId, lastResponseId, yielded, requestStates, uuidCount, emitted,
                   origin, collected, response, other, contentType, thrown,
                   bpVars, cacheVars, serviceVars, refreshVars, usageVars, managerVars, hasherVars, attemptVars, supervisorVars, tokenVars, singletonVars>>

\* axios rejects the chat request: the catch hands the error to
\* handleApiError.
ConnectReject(status) ==
    /\ streamPc = "connecting"
    /\ streamPc' = "failed"
    /\ thrown' = handleApiError(AxiosError(status))
    /\ UNCHANGED <<streamId, lastResponseId, yielded, requestStates, uuidCount, emitted,
                   origin, collected, response, other, attachments, attached,
                   contentType, bpVars, cacheVars, serviceVars, refreshVars, usageVars, managerVars, hasherVars, attemptVars, supervisorVars, tokenVars, singletonVars>>

\* axios resolves with the response: an HTML page is thrown as an Error to
\* the catch, any other content type is read line by line.
ConnectResponse(type) ==
    /\ streamPc = "connecting"
    /\ contentType' = type
    /\ IF type \notin EventStreamTypes /\ type \in HtmlTypes
       THEN /\ streamPc' = "failed"
            /\ thrown' = handleApiError(HtmlError)
       ELSE /\ streamPc' = "reading"
            /\ UNCHANGED thrown
    /\ UNCHANGED <<streamId, lastResponseId, yielded, requestStates, uuidCount, emitted,
                   origin, collected, response, other, attachments, attached,
                   bpVars, cacheVars, serviceVars, refreshVars, usageVars, managerVars, hasherVars, attemptVars, supervisorVars, tokenVars, singletonVars>>

\* The connected stream sends a token.
ConnectToken(token, carriesId) ==
    Len(yielded) < MaxConnectEvents /\ UpstreamToken(token, carriesId)

\* HTTP statuses of a rejected request; 0 is a failure without response.
Statuses == { 0, 401, 403, 429, 500 }

\* One generateContentStream call from its uploads to its end.
NextGrokConnect ==
    \/ \E status \in { 200 } \cup Statuses : UploadReply(status)
    \/ \E status \in Statuses : ConnectReject(status)
    \/ \E type \in ContentTypes : ConnectResponse(type)
    \/ \E token \in { TokHello, TokClose }, carriesId \in BOOLEAN : ConnectToken(token, carriesId)
    \/ EndOfStream
    \/ StreamError

-----------------------------------------------------------------------------
(* getApiServiceWithFallback with options.acquireSlot = true *)

\* Provider types with a registered adapter class, and one without
\* (its registerAdapter line is a comment).
Registered == { "grok-custom" }
ProviderTypes == Registered \cup { "forward-api" }

\* The credentials of the pools: the requested type and its fallback.
Credentials ==
    { [uuid |-> "u1", type |-> "grok-custom"],
      [uuid |-> "u2", type |-> "grok-custom"],
      [uuid |-> "u3", type |-> "forward-api"] }

Uuids == { cred.uuid : cred \in Credentials }

\* Concurrent getApiServiceWithFallback calls.
ApiCallIds == { "a1", "a2", "a3" }

\* A call that has not started; selectedUuid = null.
NoCall == [pc |-> "idle", type |-> "", uuid |-> ""]

\* The calls of getApiService and getApiServiceWithFallback of a request.
SelectCallIds == { "g1" }

\* null as the answer of the pool manager.
NoCredential == [uuid |-> "", type |-> ""]

\* No adapter returned.
NoAdapter == << "", "" >>

\* A call that has not started.
NoSelectCall ==
    [fn |-> "", pc |-> "idle", config |-> [type |-> "", uuid |-> ""], acquire |-> FALSE,
     answer |-> NoCredential, error |-> "", adapter |-> NoAdapter]

\* No call, no slot taken, no adapter instance.
ServiceAtRest ==
    /\ activeCount = [u \in Uuids |-> 0]
    /\ serviceInstances = { }
    /\ apiCalls = [c \in ApiCallIds |-> NoCall]

InitService == ServiceAtRest

\* providerPoolManager.acquireSlotWithFallback: selects a credential with a
\* free slot and takes the slot, or finds none and returns null.
AcquireSlotWithFallback(c, cred) ==
    /\ apiCalls[c].pc = "idle"
    /\ activeCount[cred.uuid] < SlotCapacity
    /\ activeCount' = [activeCount EXCEPT ![cred.uuid] = @ + 1]
    /\ apiCalls' = [apiCalls EXCEPT ![c] = [pc |-> "selected", type |-> cred.type,
                                            uuid |-> cred.uuid]]
    /\ UNCHANGED <<serviceInstances, bpVars, cacheVars, grokVars, adapterVars, refreshVars, usageVars, managerVars, hasherVars, attemptVars, supervisorVars, tokenVars, singletonVars>>

\* acquireSlotWithFallback returns null: the call throws 'No healthy provider
\* found in pool'.
AcquireNothing(c) ==
    /\ apiCalls[c].pc = "idle"
    /\ apiCalls' = [apiCalls EXCEPT ![c].pc = "failed"]
    /\ UNCHANGED <<activeCount, serviceInstances, bpVars, cacheVars, grokVars, adapterVars, refreshVars, usageVars, managerVars, hasherVars, attemptVars, supervisorVars, tokenVars, singletonVars>>

\* provider + uuid
ProviderKey(call) == <<call.type, call.uuid>>

\* getServiceAdapter throws 'Unsupported model provider'.
AdapterThrows(call) ==
    /\ ProviderKey(call) \notin serviceInstances
    /\ call.type \notin Registered

\* After the await: the selected config is merged, getServiceAdapter makes or
\* finds the adapter and the result with the uuid is returned, or
\* getServiceAdapter throws and the call fails.
GetServiceAdapterStep(c) ==
    /\ apiCalls[c].pc = "selected"
    /\ IF AdapterThrows(apiCalls[c])
       THEN /\ apiCalls' = [apiCalls EXCEPT ![c].pc = "failed"]
            /\ UNCHANGED serviceInstances
       ELSE /\ apiCalls' = [apiCalls EXCEPT ![c].pc = "returned"]
            /\ serviceInstances' = serviceInstances \cup { ProviderKey(apiCalls[c]) }
    /\ UNCHANGED <<activeCount, bpVars, cacheVars, grokVars, adapterVars, refreshVars, usageVars, managerVars, hasherVars, attemptVars, supervisorVars, tokenVars, singletonVars>>

\* The caller has the uuid and releases the slot when its request is over.
ReleaseSlot(c) ==
    /\ apiCalls[c].pc = "returned"
    /\ activeCount' = [activeCount EXCEPT ![apiCalls[c].uuid] = @ - 1]
    /\ apiCalls' = [apiCalls EXCEPT ![c].pc = "released"]
    /\ UNCHANGED <<serviceInstances, bpVars, cacheVars, grokVars, adapterVars, refreshVars, usageVars, managerVars, hasherVars, attemptVars, supervisorVars, tokenVars, singletonVars>>

NextService ==
    \/ \E c \in ApiCallIds, cred \in Credentials : AcquireSlotWithFallback(c, cred)
    \/ \E c \in ApiCallIds : AcquireNothing(c)
    \/ \E c \in ApiCallIds : GetServiceAdapterStep(c)
    \/ \E c \in ApiCallIds : ReleaseSlot(c)

-----------------------------------------------------------------------------
(* refreshToken and forceRefreshToken of the adapters *)

\* Adapter classes by their refresh code: the Grok adapter, the adapters that
\* refresh an OAuth token with initializeAuth(true) (Gemini, Antigravity,
\* Kiro, Qwen, iFlow, Codex), and those with static keys (OpenAI, Claude,
\* Forward).
AdapterKinds == { "grok", "oauth", "static" }

RefreshCallIds == { "f1", "f2" }

Operations == { "refreshToken", "forceRefreshToken" }

NoRefreshCall == [op |-> "", pc |-> "idle", near |-> FALSE, issued |-> FALSE]

\* GrokApiService.isExpiryDateNear
GrokIsExpiryDateNear == lastSyncAt = 0 \/ (now - lastSyncAt) > NearInterval

\* isExpiryDateNear of the adapter.
isExpiryDateNear ==
    CASE adapterKind = "grok"   -> GrokIsExpiryDateNear
      [] adapterKind = "oauth"  -> expiryNear
      [] adapterKind = "static" -> FALSE

\* No refresh call.
RefreshAtRest ==
    /\ adapterKind = "static"
    /\ coreInitialized = TRUE
    /\ now = 1
    /\ lastSyncAt = 0
    /\ expiryNear = FALSE
    /\ refreshCalls = [c \in RefreshCallIds |-> NoRefreshCall]

\* A new adapter instance of some class.
InitRefresh ==
    /\ adapterKind \in AdapterKinds
    /\ coreInitialized = (adapterKind # "oauth")
    /\ now = 1
    /\ lastSyncAt = 0
    /\ expiryNear \in IF adapterKind = "oauth" THEN BOOLEAN ELSE { FALSE }
    /\ refreshCalls = [c \in RefreshCallIds |-> NoRefreshCall]

\* Whether the operation goes on to the provider refresh, the core being
\* initialized.
Refreshes(op) ==
    CASE adapterKind = "grok"   -> TRUE
      [] adapterKind = "oauth"  -> op = "forceRefreshToken" \/ isExpiryDateNear
      [] adapterKind = "static" -> FALSE

\* The call, from the check of isExpiryDateNear on: it issues the upstream
\* refresh and awaits it, or resolves.
AfterInitialize(call, op) ==
    IF Refreshes(op)
    THEN [call EXCEPT !.op = op, !.pc = "awaiting", !.near = isExpiryDateNear,
                      !.issued = TRUE]
    ELSE [call EXCEPT !.op = op, !.pc = "resolved", !.near = isExpiryDateNear]

\* refreshToken() or forceRefreshToken() is called: an OAuth adapter whose
\* core is not initialized awaits initialize() first.
RefreshCall(c, op) ==
    /\ refreshCalls[c].pc = "idle"
    /\ refreshCalls' =
          [refreshCalls EXCEPT ![c] =
              IF adapterKind = "oauth" /\ ~coreInitialized
              THEN [@ EXCEPT !.op = op, !.pc = "initializing"]
              ELSE AfterInitialize(@, op)]
    /\ UNCHANGED <<adapterKind, coreInitialized, now, lastSyncAt, expiryNear,
                   bpVars, cacheVars, grokVars, adapterVars, serviceVars, usageVars, managerVars, hasherVars, attemptVars, supervisorVars, tokenVars, singletonVars>>

\* initialize() of the core service returns.
InitializeReturns(c) ==
    /\ refreshCalls[c].pc = "initializing"
    /\ coreInitialized' = TRUE
    /\ refreshCalls' = [refreshCalls EXCEPT ![c] = AfterInitialize(@, @.op)]
    /\ UNCHANGED <<adapterKind, now, lastSyncAt, expiryNear,
                   bpVars, cacheVars, grokVars, adapterVars, serviceVars, usageVars, managerVars, hasherVars, attemptVars, supervisorVars, tokenVars, singletonVars>>

\* The upstream refresh succeeds: getUsageLimits sets lastSyncAt, an OAuth
\* core has a fresh token.
RefreshReply(c) ==
    /\ refreshCalls[c].pc = "awaiting"
    /\ refreshCalls' = [refreshCalls EXCEPT ![c].pc = "resolved"]
    /\ lastSyncAt' = IF adapterKind = "grok" THEN now ELSE lastSyncAt
    /\ expiryNear' = IF adapterKind = "oauth" THEN FALSE ELSE expiryNear
    /\ UNCHANGED <<adapterKind, coreInitialized, now,
                   bpVars, cacheVars, grokVars, adapterVars, serviceVars, usageVars, managerVars, hasherVars, attemptVars, supervisorVars, tokenVars, singletonVars>>

\* The upstream refresh fails and the call rejects.
RefreshRejected(c) ==
    /\ refreshCalls[c].pc = "awaiting"
    /\ refreshCalls' = [refreshCalls EXCEPT ![c].pc = "rejected"]
    /\ UNCHANGED <<adapterKind, coreInitialized, now, lastSyncAt, expiryNear,
                   bpVars, cacheVars, grokVars, adapterVars, serviceVars, usageVars, managerVars, hasherVars, attemptVars, supervisorVars, tokenVars, singletonVars>>

\* Time passes; the token of an OAuth core may come near its expiry.
TimePasses(near) ==
    /\ now < MaxTime
    /\ now' = now + 1
    /\ expiryNear' = IF adapterKind = "oauth" THEN (expiryNear \/ near) ELSE expiryNear
    /\ UNCHANGED <<adapterKind, coreInitialized, lastSyncAt, refreshCalls,
                   bpVars, cacheVars, grokVars, adapterVars, serviceVars, usageVars, managerVars, hasherVars, attemptVars, supervisorVars, tokenVars, singletonVars>>

NextRefresh ==
    \/ \E c \in RefreshCallIds, op \in Operations : RefreshCall(c, op)
    \/ \E c \in RefreshCallIds : InitializeReturns(c)
    \/ \E c \in RefreshCallIds : RefreshReply(c)
    \/ \E c \in RefreshCallIds : RefreshRejected(c)
    \/ \E near \in BOOLEAN : TimePasses(near)

\* A thought, and a tool call written in one token.
TokThought == << "t" >>
TokWhole == << OpenTag, Body, CloseTag >>

\* The tokens of a stream with thinking.
PlainTokens == { TokHello, TokDone, TokWhole }
ThinkingTokens == { TokThought, TokWhole }

\* The upstream sends a token with isThinking: true.
UpstreamThinking(token) == Yield(ThinkingEvent(token, streamId))

\* The upstream reports the progress of an image generation.
UpstreamImage == Yield(ImageEvent(streamId))

\* The upstream reports the progress of a video generation, or its end.
UpstreamVideo(video) == Yield(VideoEvent(video, streamId))

\* The upstream sends the model response.
UpstreamModelResponse == Yield(ModelResponseEvent(streamId))

\* A stream with thinking and with image and video generation; every event
\* carries the stream's responseId.
NextGrokThinking ==
    \/ \E token \in PlainTokens : UpstreamToken(token, TRUE)
    \/ \E token \in ThinkingTokens : UpstreamThinking(token)
    \/ UpstreamImage
    \/ \E video \in { "progress", "done" } : UpstreamVideo(video)
    \/ UpstreamModelResponse
    \/ EndOfStream
    \/ StreamError

----------------------------------------------------------------------------
(* src/services/service-manager.js: initApiService, getApiService and       *)
(* getApiServiceWithFallback                                                *)

\* A node of config.providerPools; constructs tells whether
\* new AdapterClass(nodeConfig) returns for it (FALSE: the constructor throws).
PoolNode(type, uuid, isDisabled, constructs) ==
    [type |-> type, uuid |-> uuid, isDisabled |-> isDisabled, constructs |-> constructs]

PoolNodes ==
    { PoolNode(cred.type, cred.uuid, d, k) : cred \in Credentials, d, k \in BOOLEAN }

\* config.providerPools as the nodes of Object.entries in order: no pool, or
\* MaxNodes nodes.
PoolInputs == { << >> } \cup [1..MaxNodes -> PoolNodes]

\* config.DEFAULT_MODEL_PROVIDERS: not an array, or a list of provider types.
DefaultProviderInputs ==
    { [isArray |-> FALSE, list |-> { }], [isArray |-> TRUE, list |-> { "grok-custom" }] }

ServerConfigs ==
    { [nodes |-> n, DEFAULT_MODEL_PROVIDERS |-> d] :
         n \in PoolInputs, d \in DefaultProviderInputs }

NoServerConfig == [nodes |-> << >>, DEFAULT_MODEL_PROVIDERS |-> [isArray |-> FALSE, list |-> { }]]

\* initApiService has not been called.
NoBoot ==
    [pc |-> "idle", config |-> NoServerConfig, isReady |-> FALSE, attempted |-> << >>,
     totalInitialized |-> 0, totalFailed |-> 0]

\* config.providerPools && Object.keys(config.providerPools).length > 0
HasPools(config) == config.nodes # << >>

\* The provider type passes the DEFAULT_MODEL_PROVIDERS check.
Included(config, type) ==
    config.DEFAULT_MODEL_PROVIDERS.isArray => type \in config.DEFAULT_MODEL_PROVIDERS.list

\* getServiceAdapter(nodeConfig) throws: there is no instance under the key
\* and the provider has no adapter class or the constructor throws.
ConstructionThrows(instances, node) ==
    /\ ProviderKey(node) \notin instances
    /\ node.type \notin Registered \/ ~node.constructs

\* No catch around the node: the error leaves the loops and the function.
RethrowNodeFailure(st) == [st EXCEPT !.thrown = TRUE]

\* catch (error) { totalFailed++; logger.warn(...) }
CatchNodeFailure(st) == [st EXCEPT !.totalFailed = @ + 1]

\* The body of the loops over the provider types and their nodes.
InitNode(st, config, i) ==
    LET node == config.nodes[i]
    IN  IF ~Included(config, node.type) \/ node.isDisabled THEN st
        ELSE LET tried == [st EXCEPT !.attempted = Append(@, i)]
             IN  IF ConstructionThrows(st.instances, node)
                 THEN CatchNodeFailure(tried)
                 ELSE [tried EXCEPT !.instances = @ \cup { ProviderKey(node) },
                                    !.totalInitialized = @ + 1]

RECURSIVE InitNodes(_, _, _)
\* The loops from node i on.
InitNodes(st, config, i) ==
    IF i > Len(config.nodes) \/ st.thrown THEN st
    ELSE InitNodes(InitNode(st, config, i), config, i + 1)

\* Nothing of the service manager has run.
ManagerAtRest ==
    /\ providerPoolManager = FALSE
    /\ boot = NoBoot
    /\ warmup = "none"
    /\ expiringCheck = "none"
    /\ selectCalls = [c \in SelectCallIds |-> NoSelectCall]

InitManager == ManagerAtRest

\* initApiService(config, isReady): it has no await and runs to its return.
InitApiServiceCall(config, isReady) ==
    /\ boot.pc = "idle"
    /\ providerPoolManager' = (HasPools(config) \/ providerPoolManager)
    /\ warmup' = IF HasPools(config) /\ isReady THEN "pending" ELSE "none"
    /\ expiringCheck' = IF HasPools(config) /\ isReady THEN "pending" ELSE "none"
    /\ LET start == [instances |-> serviceInstances, attempted |-> << >>,
                     totalInitialized |-> 0, totalFailed |-> 0, thrown |-> FALSE]
           end   == InitNodes(start, config, 1)
       IN  /\ serviceInstances' = end.instances
           /\ boot' = [pc |-> IF end.thrown THEN "thrown" ELSE "returned",
                       config |-> config, isReady |-> isReady,
                       attempted |-> end.attempted,
                       totalInitialized |-> end.totalInitialized,
                       totalFailed |-> end.totalFailed]
    /\ UNCHANGED <<activeCount, apiCalls, selectCalls>>
    /\ UNCHANGED <<bpVars, cacheVars, grokVars, adapterVars, refreshVars, usageVars, hasherVars, attemptVars, supervisorVars, tokenVars, singletonVars>>

\* warmupNodes() settles; a rejection runs the .catch handler, which logs.
WarmupSettles(ok) ==
    /\ warmup = "pending"
    /\ warmup' = IF ok THEN "resolved" ELSE "caught"
    /\ UNCHANGED <<providerPoolManager, boot, expiringCheck, selectCalls>>
    /\ UNCHANGED <<bpVars, cacheVars, grokVars, adapterVars, serviceVars, refreshVars, usageVars, hasherVars, attemptVars, supervisorVars, tokenVars, singletonVars>>

\* checkAndRefreshExpiringNodes() settles; a rejection runs the .catch handler.
ExpiringCheckSettles(ok) ==
    /\ expiringCheck = "pending"
    /\ expiringCheck' = IF ok THEN "resolved" ELSE "caught"
    /\ UNCHANGED <<providerPoolManager, boot, warmup, selectCalls>>
    /\ UNCHANGED <<bpVars, cacheVars, grokVars, adapterVars, serviceVars, refreshVars, usageVars, hasherVars, attemptVars, supervisorVars, tokenVars, singletonVars>>

\* config.providerPools[config.MODEL_PROVIDER] of a request configuration,
\* which carries the pools of the server configuration.
Pooled(type) == \E i \in 1..Len(boot.config.nodes) : boot.config.nodes[i].type = type

\* The configuration given to getServiceAdapter: the request configuration
\* merged with the selected one, MODEL_PROVIDER being the actual provider type
\* after a fallback; the request configuration itself without a selection.
ServiceConfig(config, answer) ==
    IF answer = NoCredential THEN config
    ELSE [type |-> answer.type, uuid |-> answer.uuid]

\* The else branch that throws is missing.
NeverNoHealthyProvider(answer) == FALSE

\* if (selectedProviderConfig) ... else throw new Error('No healthy provider
\* found in pool ...')
NoHealthyProvider(answer) == answer = NoCredential

\* getServiceAdapter(serviceConfig) and the return of the call, or its error.
WithServiceAdapter(call, serviceConfig) ==
    IF AdapterThrows(serviceConfig)
    THEN [call EXCEPT !.pc = "failed", !.error = "Unsupported model provider"]
    ELSE [call EXCEPT !.pc = "returned", !.adapter = ProviderKey(serviceConfig)]

\* getApiService or getApiServiceWithFallback is called for a request: with a
\* pool for the provider it awaits the selection of the pool manager, without
\* it goes on to getServiceAdapter(config).
SelectCall(c, fn, type, acquire) ==
    /\ boot.pc = "returned"
    /\ selectCalls[c].pc = "idle"
    /\ acquire => fn = "getApiServiceWithFallback"
    /\ LET config == [type |-> type, uuid |-> ""]
           called == [selectCalls[c] EXCEPT !.fn = fn, !.config = config,
                                            !.acquire = acquire]
       IN  IF providerPoolManager /\ Pooled(type)
           THEN /\ selectCalls' = [selectCalls EXCEPT
                                      ![c] = [called EXCEPT !.pc = "selecting"]]
                /\ UNCHANGED serviceInstances
           ELSE /\ selectCalls' = [selectCalls EXCEPT
                                      ![c] = WithServiceAdapter(called, config)]
                /\ serviceInstances' =
                      IF AdapterThrows(config) THEN serviceInstances
                      ELSE serviceInstances \cup { ProviderKey(config) }
    /\ UNCHANGED <<activeCount, apiCalls, providerPoolManager, boot, warmup, expiringCheck>>
    /\ UNCHANGED <<bpVars, cacheVars, grokVars, adapterVars, refreshVars, usageVars, hasherVars, attemptVars, supervisorVars, tokenVars, singletonVars>>

\* The pool manager answers with a credential (of the requested type for
\* selectProvider; acquireSlotWithFallback takes a slot of it) or with null.
SelectReply(c, answer) ==
    /\ selectCalls[c].pc = "selecting"
    /\ LET call == selectCalls[c]
           serviceConfig == ServiceConfig(call.config, answer)
           answered == [call EXCEPT !.answer = answer]
       IN  /\ (call.fn = "getApiService" /\ answer # NoCredential)
                  => answer.type = call.config.type
           /\ IF call.acquire /\ answer # NoCredential
              THEN /\ activeCount[answer.uuid] < SlotCapacity
                   /\ activeCount' = [activeCount EXCEPT ![answer.uuid] = @ + 1]
              ELSE UNCHANGED activeCount
           /\ IF NoHealthyProvider(answer)
              THEN /\ selectCalls' = [selectCalls EXCEPT ![c] =
                          [answered EXCEPT !.pc = "failed",
                                           !.error = "No healthy provider found in pool"]]
                   /\ UNCHANGED serviceInstances
              ELSE /\ selectCalls' = [selectCalls EXCEPT ![c] =
                          WithServiceAdapter(
                              IF call.fn = "getApiService" /\ answer # NoCredential
                              THEN [answered EXCEPT !.config.uuid = answer.uuid]
                              ELSE answered,
                              serviceConfig)]
                   /\ serviceInstances' =
                         IF AdapterThrows(serviceConfig) THEN serviceInstances
                         ELSE serviceInstances \cup { ProviderKey(serviceConfig) }
    /\ UNCHANGED <<apiCalls, providerPoolManager, boot, warmup, expiringCheck>>
    /\ UNCHANGED <<bpVars, cacheVars, grokVars, adapterVars, refreshVars, usageVars, hasherVars, attemptVars, supervisorVars, tokenVars, singletonVars>>

NextManager ==
    \/ \E config \in ServerConfigs, isReady \in BOOLEAN : InitApiServiceCall(config, isReady)
    \/ \E ok \in BOOLEAN : WarmupSettles(ok)
    \/ \E ok \in BOOLEAN : ExpiringCheckSettles(ok)
    \/ \E c \in SelectCallIds, fn \in { "getApiService", "getApiServiceWithFallback" },
          type \in ProviderTypes, acquire \in BOOLEAN : SelectCall(c, fn, type, acquire)
    \/ \E c \in SelectCallIds, answer \in Credentials \cup { NoCredential } :
          SelectReply(c, answer)

-----------------------------------------------------------------------------
(* The two CumulativeHasher classes: ui-modules/auth.js (incremental) and   *)
(* utils/crypto-utils.js (string buffer)                                    *)
(*                                                                         *)
(* A JavaScript string is the sequence of its UTF-16 code units; the       *)
(* bytes of an encoding and a digest are hex strings.                      *)

\* The two halves of the surrogate pair of U+1F600.
HighSurrogate == "\\uD83D"
LowSurrogate == "\\uDE00"

\* The strings given to update.
HasherData ==
    { << >>, << "a" >>, << HighSurrogate >>, << LowSurrogate >>,
      << HighSurrogate, LowSurrogate >>, << "a", HighSurrogate >> }

RECURSIVE Utf8(_)
\* The UTF-8 encoding of a string, as update(data, 'utf8') and Buffer make
\* it: a surrogate pair is one code point of four bytes, a surrogate without
\* its other half is encoded as U+FFFD.
Utf8(units) ==
    IF units = << >> THEN ""
    ELSE IF Len(units) >= 2 /\ units[1] = HighSurrogate /\ units[2] = LowSurrogate
    THEN "f09f9880" \o Utf8(SubSeq(units, 3, Len(units)))
    ELSE IF Head(units) \in { HighSurrogate, LowSurrogate }
    THEN "efbfbd" \o Utf8(Tail(units))
    ELSE "61" \o Utf8(Tail(units))

\* The hex digest of the bytes: SHA-256 as a one-to-one function.
Sha256Hex(bytes) == "sha256(" \o bytes \o ")"

\* null as _currentDigest.
NoDigest == ""

\* new CumulativeHasher() of ui-modules/auth.js; hash holds the bytes the
\* crypto hash object has been fed.
NewIncremental == [hash |-> "", currentDigest |-> NoDigest, dirty |-> TRUE]

\* update(data): this._hash.update(data, 'utf8')
IncrementalUpdate(h, data) ==
    [hash |-> h.hash \o Utf8(data), currentDigest |-> NoDigest, dirty |-> TRUE]

\* getCurrentHash(): the kept digest, or the digest of a copy of the hash.
IncrementalGetCurrentHash(h) ==
    IF ~h.dirty /\ h.currentDigest # NoDigest THEN h
    ELSE [h EXCEPT !.currentDigest = Sha256Hex(h.hash), !.dirty = FALSE]

\* new CumulativeHasher() of utils/crypto-utils.js
NewBuffered == [buffer |-> << >>]

\* update(data): this.buffer += data
BufferedUpdate(h, data) == [buffer |-> h.buffer \o data]

\* getCurrentHash(): createHash('sha256').update(this.buffer, 'utf8').digest('hex')
BufferedGetCurrentHash(h) == Sha256Hex(Utf8(h.buffer))

\* The operation done last returned no hash.
NothingReturned(op) == [op |-> op, incremental |-> NoDigest, buffered |-> NoDigest]

\* What the operation returned on each hasher.
HashesReturned(op, h, b) ==
    [op |-> op, incremental |-> h.currentDigest, buffered |-> BufferedGetCurrentHash(b)]

\* No hasher in use.
HasherAtRest ==
    /\ incremental = NewIncremental
    /\ buffered = NewBuffered
    /\ returned = NothingReturned("")
    /\ hasherOps = 0

\* One new hasher of each class.
InitHashers == HasherAtRest

\* update(data) on both hashers.
UpdateBoth(data) ==
    /\ hasherOps < MaxHasherOps
    /\ hasherOps' = hasherOps + 1
    /\ incremental' = IncrementalUpdate(incremental, data)
    /\ buffered' = BufferedUpdate(buffered, data)
    /\ returned' = NothingReturned("update")
    /\ UNCHANGED <<bpVars, cacheVars, grokVars, adapterVars, serviceVars, refreshVars, usageVars, managerVars, attemptVars, supervisorVars, tokenVars, singletonVars>>

\* getCurrentHash() on both hashers.
GetCurrentHashBoth ==
    /\ hasherOps < MaxHasherOps
    /\ hasherOps' = hasherOps + 1
    /\ incremental' = IncrementalGetCurrentHash(incremental)
    /\ returned' = HashesReturned("getCurrentHash", incremental', buffered)
    /\ UNCHANGED buffered
    /\ UNCHANGED <<bpVars, cacheVars, grokVars, adapterVars, serviceVars, refreshVars, usageVars, managerVars, attemptVars, supervisorVars, tokenVars, singletonVars>>

\* finalize() on both hashers: return this.getCurrentHash()
FinalizeBoth ==
    /\ hasherOps < MaxHasherOps
    /\ hasherOps' = hasherOps + 1
    /\ incremental' = IncrementalGetCurrentHash(incremental)
    /\ returned' = HashesReturned("finalize", incremental', buffered)
    /\ UNCHANGED buffered
    /\ UNCHANGED <<bpVars, cacheVars, grokVars, adapterVars, serviceVars, refreshVars, usageVars, managerVars, attemptVars, supervisorVars, tokenVars, singletonVars>>

\* reset() on both hashers.
ResetBoth ==
    /\ hasherOps < MaxHasherOps
    /\ hasherOps' = hasherOps + 1
    /\ incremental' = NewIncremental
    /\ buffered' = NewBuffered
    /\ returned' = NothingReturned("reset")
    /\ UNCHANGED <<bpVars, cacheVars, grokVars, adapterVars, serviceVars, refreshVars, usageVars, managerVars, attemptVars, supervisorVars, tokenVars, singletonVars>>

NextHashers ==
    \/ \E data \in HasherData : UpdateBoth(data)
    \/ GetCurrentHashBoth
    \/ FinalizeBoth
    \/ ResetBoth

-----------------------------------------------------------------------------
(* generateContentStream of src/providers/grok/grok-core.js, called again   *)
(* with the same request body after a failure                               *)

\* The id uploadFile returns is written as the number of the attempt that
\* uploaded the file; 0 is an id the client put in requestBody.fileAttachments.
RequestBodies ==
    { [images |-> k, fileAttachments |-> f] :
         k \in 0..MaxAttachments, f \in { << >>, << 0 >> } }

\* No generateContentStream call yet.
NoAttempt ==
    [n |-> 0, pc |-> "idle", near |-> FALSE, marked |-> FALSE, left |-> 0,
     fileAttachments |-> << >>]

\* No Grok request.
AttemptAtRest ==
    /\ grokUuid = ""
    /\ needRefresh = 0
    /\ requestBody = [images |-> 0, fileAttachments |-> << >>]
    /\ attempt = NoAttempt
    /\ sentPayloads = << >>

\* The server has started: with pools the pool manager exists and the nodes
\* have their adapters, without pools it is null.
ManagerStarted(nodes) ==
    /\ providerPoolManager = (nodes # << >>)
    /\ boot = [pc |-> "returned",
               config |-> [NoServerConfig EXCEPT !.nodes = nodes],
               isReady |-> FALSE,
               attempted |-> [i \in 1..Len(nodes) |-> i],
               totalInitialized |-> Len(nodes), totalFailed |-> 0]
    /\ warmup = "none"
    /\ expiringCheck = "none"
    /\ selectCalls = [c \in SelectCallIds |-> NoSelectCall]
    /\ activeCount = [u \in Uuids |-> 0]
    /\ serviceInstances = { ProviderKey(nodes[i]) : i \in 1..Len(nodes) }
    /\ apiCalls = [c \in ApiCallIds |-> NoCall]

\* A Grok adapter with its core initialized, of a pool node (with its uuid)
\* or of the server configuration (without uuid), and a request for it.
InitGrokAttempts ==
    /\ \E nodes \in { << >>, << PoolNode("grok-custom", "u1", FALSE, TRUE),
                                PoolNode("grok-custom", "u2", FALSE, TRUE) >> } :
          /\ ManagerStarted(nodes)
          /\ grokUuid \in IF nodes = << >> THEN { "" } ELSE { "", "u1" }
    /\ needRefresh = 0
    /\ requestBody \in RequestBodies
    /\ attempt = NoAttempt
    /\ sentPayloads = << >>
    /\ adapterKind = "grok"
    /\ coreInitialized = TRUE
    /\ now = 1
    /\ lastSyncAt \in { 0, 1 }
    /\ expiryNear = FALSE
    /\ refreshCalls = [c \in RefreshCallIds |-> NoRefreshCall]

\* poolManager && this.uuid
CanMark == providerPoolManager /\ grokUuid # ""

\* The call up to its first await: the check of isExpiryDateNear with the
\* marking, the first buildPayload, and the final payload when nothing is to
\* upload. It is made first, or again after a failed attempt.
GenerateContentStreamCall ==
    /\ attempt.pc \in { "idle", "failed" }
    /\ attempt.n < MaxAttempts
    /\ LET near   == GrokIsExpiryDateNear
           marked == near /\ CanMark
           list   == requestBody.fileAttachments
       IN  /\ needRefresh' = IF marked THEN needRefresh + 1 ELSE needRefresh
           /\ attempt' = [n |-> attempt.n + 1,
                          pc |-> IF requestBody.images > 0 THEN "uploading" ELSE "connecting",
                          near |-> near, marked |-> marked,
                          left |-> requestBody.images,
                          fileAttachments |-> list]
           /\ sentPayloads' = IF requestBody.images > 0 THEN sentPayloads
                              ELSE Append(sentPayloads, list)
    /\ UNCHANGED <<grokUuid, requestBody>>
    /\ UNCHANGED <<bpVars, cacheVars, grokVars, adapterVars, serviceVars, refreshVars, usageVars, managerVars, hasherVars, supervisorVars, tokenVars, singletonVars>>

\* uploadFile returns the fileMetadataId, or null after a failure; after the
\* last upload the list is stored in the request body and the final payload
\* is built of it.
AttemptUploadReply(ok) ==
    /\ attempt.pc = "uploading"
    /\ LET list == IF ok THEN Append(attempt.fileAttachments, attempt.n)
                   ELSE attempt.fileAttachments
           last == attempt.left = 1
       IN  /\ attempt' = [attempt EXCEPT !.left = @ - 1, !.fileAttachments = list,
                                         !.pc = IF last THEN "connecting" ELSE "uploading"]
           /\ requestBody' = IF last THEN [requestBody EXCEPT !.fileAttachments = list]
                             ELSE requestBody
           /\ sentPayloads' = IF last THEN Append(sentPayloads, list) ELSE sentPayloads
    /\ UNCHANGED <<grokUuid, needRefresh>>
    /\ UNCHANGED <<bpVars, cacheVars, grokVars, adapterVars, serviceVars, refreshVars, usageVars, managerVars, hasherVars, supervisorVars, tokenVars, singletonVars>>

\* The chat request is answered and the stream read to its end, or the
\* request or the reading fails and the call throws.
AttemptEnds(ok) ==
    /\ attempt.pc = "connecting"
    /\ attempt' = [attempt EXCEPT !.pc = IF ok THEN "done" ELSE "failed"]
    /\ UNCHANGED <<grokUuid, needRefresh, requestBody, sentPayloads>>
    /\ UNCHANGED <<bpVars, cacheVars, grokVars, adapterVars, serviceVars, refreshVars, usageVars, managerVars, hasherVars, supervisorVars, tokenVars, singletonVars>>

NextGrokAttempts ==
    \/ GenerateContentStreamCall
    \/ \E ok \in BOOLEAN : AttemptUploadReply(ok)
    \/ \E ok \in BOOLEAN : AttemptEnds(ok)
    \/ \E c \in RefreshCallIds, op \in Operations : RefreshCall(c, op)
    \/ \E c \in RefreshCallIds : RefreshReply(c)
    \/ \E c \in RefreshCallIds : RefreshRejected(c)
    \/ TimePasses(FALSE)

-----------------------------------------------------------------------------
(* The usage cache of src/ui-modules/auth.js: atomicWriteFile,              *)
(* readUsageCache, writeUsageCache, updateProviderUsageCache.               *)
(*                                                                         *)
(* A document is its providers object, a function from provider types to   *)
(* usage data, 0 for a type without entry; the timestamp is left out. A    *)
(* file is absent, holds a part of a document's JSON text, or the whole.   *)

UsageProviderTypes == { "gemini", "grok" }

UsageCallIds == 1..MaxUsageCalls

\* { timestamp, providers: {} }
EmptyDoc == [t \in UsageProviderTypes |-> 0]

\* The document of the file when the module is loaded, if there is one.
FirstDoc == [t \in UsageProviderTypes |-> 9]

Absent == [state |-> "absent", doc |-> EmptyDoc]
Partial(doc) == [state |-> "partial", doc |-> doc]
Whole(doc) == [state |-> "whole", doc |-> doc]

\* USAGE_CACHE_FILE
UsageCacheFile == "usage-cache.json"

\* A temporary file written straight at the target path.
TmpFileIsTarget(c) == UsageCacheFile

\* tmpFile of atomicWriteFile: the target's name with pid and a random UUID.
TmpFile(c) == UsageCacheFile \o "." \o ToString(c) \o ".tmp"

FileNames == { UsageCacheFile } \cup { TmpFile(c) : c \in UsageCallIds }

\* usageData of the call.
UsageData(c) == c

\* The usageData document a writeUsageCache call is given.
UsageDocument(c) == [t \in UsageProviderTypes |-> 10 + c]

NoUsageCall ==
    [op |-> "", pc |-> "idle", type |-> "", prev |-> 0, released |-> FALSE,
     doc |-> EmptyDoc, readVersion |-> 0, renamedOver |-> 0, outcome |-> "",
     result |-> Absent]

\* No call on the usage cache; no cache file.
UsageAtRest ==
    /\ loaded = Absent
    /\ files = [f \in FileNames |-> Absent]
    /\ fileVersion = 0
    /\ writeLock = 0
    /\ made = << >>
    /\ usageCalls = [c \in UsageCallIds |-> NoUsageCall]

\* The module is loaded; the cache file of an earlier run may be there.
InitUsage ==
    /\ loaded \in { Absent, Whole(FirstDoc) }
    /\ files = [f \in FileNames |-> IF f = UsageCacheFile THEN loaded ELSE Absent]
    /\ fileVersion = 0
    /\ writeLock = 0
    /\ made = << >>
    /\ usageCalls = [c \in UsageCallIds |-> NoUsageCall]

\* JSON.parse of the content read: the document, or null (here: no
\* document) when the text is not whole.
ParsedDoc(content) == IF content.state = "whole" THEN << content.doc >> ELSE << >>

\* cache.providers[providerType] = usageData, on the cache read or on a new
\* one.
Updated(read, type, data) ==
    [(IF read = << >> THEN EmptyDoc ELSE read[1]) EXCEPT ![type] = data]

\* atomicWriteFile up to its first await: fs.writeFile(tmpFile, ...) begins.
BeginWrite(c, call, doc) ==
    /\ usageCalls' = [usageCalls EXCEPT ![c] = [call EXCEPT !.doc = doc, !.pc = "writeFile"]]
    /\ files' = [files EXCEPT ![TmpFile(c)] = Partial(doc)]

\* await prev that does not wait.
PrevResolvedAlways(c) == TRUE

\* await prev: the promise of the call before has been resolved.
PrevResolved(c) ==
    IF usageCalls[c].prev = 0 THEN TRUE ELSE usageCalls[usageCalls[c].prev].released

\* updateProviderUsageCache(providerType, usageData) up to its first await:
\* it takes the place behind the last call in _writeLock.
UpdateCall(c, type) ==
    /\ usageCalls[c].pc = "idle"
    /\ usageCalls' = [usageCalls EXCEPT ![c] =
          [@ EXCEPT !.op = "update", !.pc = "awaitPrev", !.type = type, !.prev = writeLock]]
    /\ writeLock' = c
    /\ made' = Append(made, c)
    /\ UNCHANGED <<files, fileVersion>>
    /\ UNCHANGED <<loaded, bpVars, cacheVars, grokVars, adapterVars, serviceVars, refreshVars, managerVars, hasherVars, attemptVars, supervisorVars, tokenVars, singletonVars>>

\* await prev returns: readUsageCache finds no file and the new cache is
\* written, or it begins to read the file.
AwaitPrevReturns(c) ==
    /\ usageCalls[c].pc = "awaitPrev"
    /\ PrevResolved(c)
    /\ IF files[UsageCacheFile].state = "absent"
       THEN BeginWrite(c, [usageCalls[c] EXCEPT !.readVersion = fileVersion],
                       Updated(<< >>, usageCalls[c].type, UsageData(c)))
       ELSE /\ usageCalls' = [usageCalls EXCEPT ![c].pc = "readFile"]
            /\ UNCHANGED files
    /\ UNCHANGED <<fileVersion, writeLock, made>>
    /\ UNCHANGED <<loaded, bpVars, cacheVars, grokVars, adapterVars, serviceVars, refreshVars, managerVars, hasherVars, attemptVars, supervisorVars, tokenVars, singletonVars>>

\* writeUsageCache(usageData) called from outside: atomicWriteFile begins.
WriteCall(c) ==
    /\ usageCalls[c].pc = "idle"
    /\ BeginWrite(c, [usageCalls[c] EXCEPT !.op = "write"], UsageDocument(c))
    /\ UNCHANGED <<fileVersion, writeLock, made>>
    /\ UNCHANGED <<loaded, bpVars, cacheVars, grokVars, adapterVars, serviceVars, refreshVars, managerVars, hasherVars, attemptVars, supervisorVars, tokenVars, singletonVars>>

\* readUsageCache() called from outside: null when there is no file.
ReadCall(c) ==
    /\ usageCalls[c].pc = "idle"
    /\ usageCalls' = [usageCalls EXCEPT ![c] =
          [@ EXCEPT !.op = "read",
                    !.pc = IF files[UsageCacheFile].state = "absent" THEN "done" ELSE "readFile"]]
    /\ UNCHANGED <<files, fileVersion, writeLock, made>>
    /\ UNCHANGED <<loaded, bpVars, cacheVars, grokVars, adapterVars, serviceVars, refreshVars, managerVars, hasherVars, attemptVars, supervisorVars, tokenVars, singletonVars>>

\* fs.readFile returns the content of the file; an unparsable content makes
\* readUsageCache return null. The update goes on to write its cache.
ReadFileReply(c) ==
    /\ usageCalls[c].pc = "readFile"
    /\ IF usageCalls[c].op = "read"
       THEN /\ usageCalls' = [usageCalls EXCEPT ![c].pc = "done",
                                               ![c].result = files[UsageCacheFile]]
            /\ UNCHANGED files
       ELSE BeginWrite(c, [usageCalls[c] EXCEPT !.readVersion = fileVersion],
                       Updated(ParsedDoc(files[UsageCacheFile]), usageCalls[c].type,
                               UsageData(c)))
    /\ UNCHANGED <<fileVersion, writeLock, made>>
    /\ UNCHANGED <<loaded, bpVars, cacheVars, grokVars, adapterVars, serviceVars, refreshVars, managerVars, hasherVars, attemptVars, supervisorVars, tokenVars, singletonVars>>

\* fs.writeFile of the temporary file resolves, or rejects and leaves what
\* it has written or nothing.
WriteFileReply(c, ok, left) ==
    /\ usageCalls[c].pc = "writeFile"
    /\ files' = [files EXCEPT ![TmpFile(c)] =
                    IF ok THEN Whole(usageCalls[c].doc)
                    ELSE IF left THEN Partial(usageCalls[c].doc) ELSE Absent]
    /\ usageCalls' = [usageCalls EXCEPT ![c].pc = IF ok THEN "rename" ELSE "unlink"]
    /\ UNCHANGED <<fileVersion, writeLock, made>>
    /\ UNCHANGED <<loaded, bpVars, cacheVars, grokVars, adapterVars, serviceVars, refreshVars, managerVars, hasherVars, attemptVars, supervisorVars, tokenVars, singletonVars>>

\* The write is over: writeUsageCache logs, and the finally of an update
\* resolves its promise.
Finished(call, outcome) ==
    [call EXCEPT !.pc = "done", !.outcome = outcome,
                 !.released = (call.op = "update"), !.renamedOver = fileVersion]

\* fs.rename puts the temporary file in the place of the target, or rejects.
RenameReply(c, ok) ==
    /\ usageCalls[c].pc = "rename"
    /\ IF ok
       THEN /\ files' = IF TmpFile(c) = UsageCacheFile THEN files
                        ELSE [files EXCEPT ![UsageCacheFile] = files[TmpFile(c)],
                                           ![TmpFile(c)] = Absent]
            /\ fileVersion' = fileVersion + 1
            /\ usageCalls' = [usageCalls EXCEPT ![c] = Finished(@, "written")]
       ELSE /\ usageCalls' = [usageCalls EXCEPT ![c].pc = "unlink"]
            /\ UNCHANGED <<files, fileVersion>>
    /\ UNCHANGED <<writeLock, made>>
    /\ UNCHANGED <<loaded, bpVars, cacheVars, grokVars, adapterVars, serviceVars, refreshVars, managerVars, hasherVars, attemptVars, supervisorVars, tokenVars, singletonVars>>

\* The catch of atomicWriteFile: fs.unlink removes the temporary file (an
\* error of unlink, as for a file that is not there, is ignored) and the
\* error is thrown to writeUsageCache.
UnlinkReply(c) ==
    /\ usageCalls[c].pc = "unlink"
    /\ files' = [files EXCEPT ![TmpFile(c)] = Absent]
    /\ usageCalls' = [usageCalls EXCEPT ![c] = Finished(@, "failed")]
    /\ UNCHANGED <<fileVersion, writeLock, made>>
    /\ UNCHANGED <<loaded, bpVars, cacheVars, grokVars, adapterVars, serviceVars, refreshVars, managerVars, hasherVars, attemptVars, supervisorVars, tokenVars, singletonVars>>

\* The steps that end an await of a call.
UsageReplies ==
    \/ \E c \in UsageCallIds : AwaitPrevReturns(c)
    \/ \E c \in UsageCallIds : ReadFileReply(c)
    \/ \E c \in UsageCallIds, ok \in BOOLEAN, left \in BOOLEAN : WriteFileReply(c, ok, left)
    \/ \E c \in UsageCallIds, ok \in BOOLEAN : RenameReply(c, ok)
    \/ \E c \in UsageCallIds : UnlinkReply(c)

\* Concurrent updateProviderUsageCache calls.
NextUsageUpdate ==
    \/ \E c \in UsageCallIds, type \in UsageProviderTypes : UpdateCall(c, type)
    \/ UsageReplies

\* Concurrent calls of the module's exported operations.
NextUsage ==
    \/ \E c \in UsageCallIds, type \in UsageProviderTypes : UpdateCall(c, type)
    \/ \E c \in UsageCallIds : WriteCall(c)
    \/ \E c \in UsageCallIds : ReadCall(c)
    \/ UsageReplies

-----------------------------------------------------------------------------
(* The master process of src/unnamed/part_000: it forks the worker, stops
   and restarts it on request and restarts it after a crash.  The handlers
   of the master run one at a time; a worker exits when the system says so. *)

\* config.maxRestartAttempts, scaled down: only the comparison of
\* restartCount with it matters.
MaxRestartAttempts == 2

\* Requests to the management server and restart_request messages of the
\* worker that are received in one run.
MaxRequests == 3

\* workerProcess = null, workerStatus.pid = null
NoWorker == 0

\* How a worker exits: with code 0, with another code, or by a signal
\* (code null).
ExitCodes == { "zero", "nonzero", "signal" }

NoReply ==
    [kind |-> "none", from |-> "none", success |-> FALSE, pid |-> NoWorker,
     old |-> NoWorker, forked |-> FALSE]

SupervisorAtRest ==
    /\ workerProcess = NoWorker
    /\ workerStatus = [pid |-> NoWorker, restartCount |-> 0, lastRestartTime |-> 0,
                       isRestarting |-> FALSE]
    /\ alive = {}
    /\ forks = 0
    /\ stops = {}
    /\ restarts = {}
    /\ scheduled = 0
    /\ requests = 0
    /\ lastReply = NoReply
    /\ afterStop = FALSE
    /\ crashPending = FALSE

\* A startWorker that forks whatever workerProcess holds.
NeverRunning(process) == FALSE

\* if (workerProcess) return;  of startWorker
AlreadyRunning(process) == process # NoWorker

\* startWorker(): forks a worker unless workerProcess is set.  status is
\* workerStatus as the caller leaves it.
StartWorker(status) ==
    IF AlreadyRunning(workerProcess)
    THEN /\ workerStatus' = status
         /\ UNCHANGED <<workerProcess, alive, forks, crashPending>>
    ELSE /\ forks' = forks + 1
         /\ workerProcess' = forks + 1
         /\ alive' = alive \cup { [pid |-> forks + 1, signal |-> "none"] }
         /\ workerStatus' = [status EXCEPT !.pid = forks + 1]
         /\ crashPending' = FALSE

\* process.kill(signal) on the child: SIGKILL is not replaced by SIGTERM.
Kill(processes, pid, signal) ==
    { IF w.pid = pid /\ w.signal # "SIGKILL" THEN [w EXCEPT !.signal = signal] ELSE w :
        w \in processes }

\* A scheduleRestart that sets no timer.
NeverSchedule(count, timers) == timers

\* scheduleRestart(): the pending timers after it, restartCount being count.
ScheduleRestart(count, timers) ==
    IF count >= MaxRestartAttempts THEN timers ELSE timers + 1

\* A restartWorker that never finds a restart in progress.
NeverInProgress(status) == FALSE

\* if (workerStatus.isRestarting) return { success: false, ... }
RestartInProgress(status) == status.isRestarting

\* The answer to POST /master/stop is sent: the stop has completed.  A
\* restart that was requested before and is still running may start its
\* worker afterwards.
StopAnswered(flag) ==
    IF \E r \in restarts : r.from # "timer" THEN flag ELSE TRUE

\* restartWorker() up to its first timer: the guard, the bookkeeping and
\* stopWorker(true), which resolves at once when there is no worker.
RestartWorker(from) ==
    IF RestartInProgress(workerStatus)
    THEN /\ lastReply' = [NoReply EXCEPT !.kind = "restart", !.from = from]
         /\ UNCHANGED <<workerProcess, workerStatus, alive, forks, stops, restarts,
                        crashPending>>
    ELSE LET count == workerStatus.restartCount + 1
             call(phase) == [id |-> count, from |-> from, old |-> workerStatus.pid,
                             phase |-> phase]
         IN  /\ workerStatus' = [workerStatus EXCEPT !.isRestarting = TRUE,
                                                     !.restartCount = count,
                                                     !.lastRestartTime = count]
             /\ IF workerProcess = NoWorker
                THEN /\ restarts' = restarts \cup { call("delay") }
                     /\ UNCHANGED <<stops, alive>>
                ELSE /\ restarts' = restarts \cup { call("stopping") }
                     /\ stops' = stops \cup { [pid |-> workerProcess, restart |-> count,
                                               request |-> 0, timer |-> TRUE,
                                               resolved |-> FALSE] }
                     /\ alive' = Kill(alive, workerProcess, "SIGTERM")
             /\ UNCHANGED <<workerProcess, forks, crashPending, lastReply>>

\* The state after main(): the worker was started.
InitSupervisor ==
    /\ workerProcess = 1
    /\ workerStatus = [pid |-> 1, restartCount |-> 0, lastRestartTime |-> 0,
                       isRestarting |-> FALSE]
    /\ alive = { [pid |-> 1, signal |-> "none"] }
    /\ forks = 1
    /\ stops = {}
    /\ restarts = {}
    /\ scheduled = 0
    /\ requests = 0
    /\ lastReply = NoReply
    /\ afterStop = FALSE
    /\ crashPending = FALSE

\* POST /master/start
StartRequest ==
    /\ requests < MaxRequests
    /\ requests' = requests + 1
    /\ afterStop' = FALSE
    /\ IF workerProcess # NoWorker
       THEN /\ lastReply' = [NoReply EXCEPT !.kind = "start", !.from = "api"]
            /\ UNCHANGED <<workerProcess, workerStatus, alive, forks, crashPending>>
       ELSE /\ StartWorker(workerStatus)
            /\ lastReply' = [kind |-> "start", from |-> "api", success |-> TRUE,
                             pid |-> workerStatus'.pid, old |-> workerStatus.pid,
                             forked |-> forks' # forks]
    /\ UNCHANGED <<stops, restarts, scheduled>>
    /\ UNCHANGED <<bpVars, cacheVars, grokVars, adapterVars, serviceVars, refreshVars, usageVars, managerVars, hasherVars, attemptVars, tokenVars, singletonVars>>

\* POST /master/stop: stopWorker(true), answered when its promise resolves.
StopRequest ==
    /\ requests < MaxRequests
    /\ requests' = requests + 1
    /\ IF workerProcess = NoWorker
       THEN /\ afterStop' = StopAnswered(afterStop)
            /\ UNCHANGED <<stops, alive>>
       ELSE /\ stops' = stops \cup { [pid |-> workerProcess, restart |-> 0,
                                      request |-> requests + 1, timer |-> TRUE,
                                      resolved |-> FALSE] }
            /\ alive' = Kill(alive, workerProcess, "SIGTERM")
            /\ UNCHANGED afterStop
    /\ UNCHANGED <<workerProcess, workerStatus, forks, restarts, scheduled, lastReply,
                   crashPending>>
    /\ UNCHANGED <<bpVars, cacheVars, grokVars, adapterVars, serviceVars, refreshVars, usageVars, managerVars, hasherVars, attemptVars, tokenVars, singletonVars>>

\* POST /master/restart
RestartRequest ==
    /\ requests < MaxRequests
    /\ requests' = requests + 1
    /\ afterStop' = FALSE
    /\ RestartWorker("api")
    /\ UNCHANGED scheduled
    /\ UNCHANGED <<bpVars, cacheVars, grokVars, adapterVars, serviceVars, refreshVars, usageVars, managerVars, hasherVars, attemptVars, tokenVars, singletonVars>>

\* The worker sends { type: 'restart_request' }: handleWorkerMessage.
WorkerRestartRequest ==
    /\ requests < MaxRequests
    /\ alive # {}
    /\ requests' = requests + 1
    /\ afterStop' = FALSE
    /\ RestartWorker("message")
    /\ UNCHANGED scheduled
    /\ UNCHANGED <<bpVars, cacheVars, grokVars, adapterVars, serviceVars, refreshVars, usageVars, managerVars, hasherVars, attemptVars, tokenVars, singletonVars>>

\* The timer of scheduleRestart fires: restartWorker().
ScheduledRestartFires ==
    /\ scheduled > 0
    /\ scheduled' = scheduled - 1
    /\ RestartWorker("timer")
    /\ UNCHANGED <<requests, afterStop>>
    /\ UNCHANGED <<bpVars, cacheVars, grokVars, adapterVars, serviceVars, refreshVars, usageVars, managerVars, hasherVars, attemptVars, tokenVars, singletonVars>>

\* The restarts after the stopWorker promises of the calls in resolved have
\* resolved: the restart that awaited one of them sets its delay timer.
AfterStopWorker(resolved) ==
    { IF \E s \in resolved : s.restart = r.id THEN [r EXCEPT !.phase = "delay"] ELSE r :
        r \in restarts }

\* The worker w exits: the 'exit' listener of startWorker, then the
\* once-listeners of the stopWorker calls made on it.
WorkerExits(w, code) ==
    /\ w \in alive
    /\ w.signal = "SIGKILL" => code = "signal"
    /\ LET mine == { s \in stops : s.pid = w.pid }
           resolved == { s \in mine : ~s.resolved }
           crash == ~workerStatus.isRestarting /\ code # "zero"
       IN  /\ alive' = alive \ { w }
           /\ workerProcess' = NoWorker
           /\ workerStatus' = [workerStatus EXCEPT !.pid = NoWorker]
           /\ scheduled' = IF crash
                           THEN ScheduleRestart(workerStatus.restartCount, scheduled)
                           ELSE scheduled
           /\ crashPending' = IF crash /\ workerStatus.restartCount < MaxRestartAttempts
                              THEN TRUE
                              ELSE crashPending
           /\ stops' = stops \ mine
           /\ restarts' = AfterStopWorker(resolved)
           /\ afterStop' = IF \E s \in resolved : s.restart = 0
                           THEN StopAnswered(afterStop)
                           ELSE afterStop
    /\ UNCHANGED <<forks, requests, lastReply>>
    /\ UNCHANGED <<bpVars, cacheVars, grokVars, adapterVars, serviceVars, refreshVars, usageVars, managerVars, hasherVars, attemptVars, tokenVars, singletonVars>>

\* The 5-second timer of the stopWorker call s fires: SIGKILL for the
\* worker and the promise resolves, whether or not the worker has exited.
ForceKillFires(s) ==
    /\ s \in stops
    /\ s.timer
    /\ alive' = IF workerProcess # NoWorker
                THEN Kill(alive, workerProcess, "SIGKILL")
                ELSE alive
    /\ stops' = (stops \ { s }) \cup { [s EXCEPT !.timer = FALSE, !.resolved = TRUE] }
    /\ restarts' = AfterStopWorker({ s })
    /\ afterStop' = IF s.restart = 0 THEN StopAnswered(afterStop) ELSE afterStop
    /\ UNCHANGED <<workerProcess, workerStatus, forks, scheduled, requests, lastReply,
                   crashPending>>
    /\ UNCHANGED <<bpVars, cacheVars, grokVars, adapterVars, serviceVars, refreshVars, usageVars, managerVars, hasherVars, attemptVars, tokenVars, singletonVars>>

\* The restartDelay timer of the restart r fires: startWorker(), the flag
\* is cleared and restartWorker returns success.
RestartDelayFires(r) ==
    /\ r \in restarts
    /\ r.phase = "delay"
    /\ StartWorker([workerStatus EXCEPT !.isRestarting = FALSE])
    /\ restarts' = restarts \ { r }
    /\ lastReply' = [kind |-> "restart", from |-> r.from, success |-> TRUE,
                     pid |-> workerStatus'.pid, old |-> r.old,
                     forked |-> forks' # forks]
    /\ UNCHANGED <<stops, scheduled, requests, afterStop>>
    /\ UNCHANGED <<bpVars, cacheVars, grokVars, adapterVars, serviceVars, refreshVars, usageVars, managerVars, hasherVars, attemptVars, tokenVars, singletonVars>>

NextSupervisor ==
    \/ StartRequest
    \/ StopRequest
    \/ RestartRequest
    \/ WorkerRestartRequest
    \/ ScheduledRestartFires
    \/ \E w \in alive, code \in ExitCodes : WorkerExits(w, code)
    \/ \E s \in stops : ForceKillFires(s)
    \/ \E r \in restarts : RestartDelayFires(r)

-----------------------------------------------------------------------------
(* The login tokens of src/ui-modules/auth.js: saveToken, verifyToken and
   cleanupExpiredTokens, each reading configs/token-store.json, changing
   what it read and writing it back, with other calls in between. *)

\* Calls made in one run.
MaxTokenCalls == 3

\* The clock runs from 0 to MaxTokenTime.
MaxTokenTime == 2

\* CONFIG.LOGIN_EXPIRY, in ticks of the clock.
LoginExpiry == 1

TokenCallIds == 1..MaxTokenCalls

\* The token that login call c generates is c; 0 is a token of an earlier
\* login.
TokenNames == 0..MaxTokenCalls

NoTokenCall ==
    [op |-> "none", pc |-> "idle", token |-> 0, expiryTime |-> 0, store |-> {},
     result |-> "none"]

TokenAtRest ==
    /\ tokenStoreFile = {}
    /\ tokenCalls = [c \in TokenCallIds |-> NoTokenCall]
    /\ tokenClock = 0
    /\ savedTokens = {}

\* The store holds the token of a login whose expiryTime is the present.
InitTokens ==
    /\ tokenStoreFile = { [token |-> 0, expiryTime |-> 0] }
    /\ tokenCalls = [c \in TokenCallIds |-> NoTokenCall]
    /\ tokenClock = 0
    /\ savedTokens = {}

\* tokenStore.tokens[token] is set
HasToken(tokenStore, token) == \E e \in tokenStore : e.token = token

\* tokenStore.tokens[token]
TokenInfoOf(tokenStore, token) == CHOOSE e \in tokenStore : e.token = token

\* Date.now() > tokenInfo.expiryTime
TokenExpired(info, time) == time > info.expiryTime

\* tokenStore.tokens[token] = tokenInfo
WithToken(tokenStore, token, expiryTime) ==
    { e \in tokenStore : e.token # token } \cup { [token |-> token, expiryTime |-> expiryTime] }

\* delete tokenStore.tokens[token]
WithoutToken(tokenStore, token) == { e \in tokenStore : e.token # token }

\* The loop of cleanupExpiredTokens.
WithoutExpired(tokenStore, time) == { e \in tokenStore : ~TokenExpired(e, time) }

\* handleLoginRequest with a valid password: generateToken(),
\* getExpiryTime() and saveToken up to its read of the store.
LoginCall(c) ==
    /\ tokenCalls[c].op = "none"
    /\ tokenCalls' = [tokenCalls EXCEPT ![c] =
            [NoTokenCall EXCEPT !.op = "login", !.pc = "reading", !.token = c,
                                !.expiryTime = tokenClock + LoginExpiry]]
    /\ UNCHANGED <<tokenStoreFile, tokenClock, savedTokens>>
    /\ UNCHANGED <<bpVars, cacheVars, grokVars, adapterVars, serviceVars, refreshVars, usageVars, managerVars, hasherVars, attemptVars, supervisorVars, singletonVars>>

\* verifyToken(token) up to its read of the store.
VerifyTokenCall(c, token) ==
    /\ tokenCalls[c].op = "none"
    /\ tokenCalls' = [tokenCalls EXCEPT ![c] =
            [NoTokenCall EXCEPT !.op = "verify", !.pc = "reading", !.token = token]]
    /\ UNCHANGED <<tokenStoreFile, tokenClock, savedTokens>>
    /\ UNCHANGED <<bpVars, cacheVars, grokVars, adapterVars, serviceVars, refreshVars, usageVars, managerVars, hasherVars, attemptVars, supervisorVars, singletonVars>>

\* cleanupExpiredTokens() of the interval timer, up to its read.
CleanupExpiredTokensCall(c) ==
    /\ tokenCalls[c].op = "none"
    /\ tokenCalls' = [tokenCalls EXCEPT ![c] =
            [NoTokenCall EXCEPT !.op = "cleanup", !.pc = "reading"]]
    /\ UNCHANGED <<tokenStoreFile, tokenClock, savedTokens>>
    /\ UNCHANGED <<bpVars, cacheVars, grokVars, adapterVars, serviceVars, refreshVars, usageVars, managerVars, hasherVars, attemptVars, supervisorVars, singletonVars>>

\* readTokenStore() of call c resolves with the content of the file, and
\* the call runs up to its next await or its return.
ReadTokenStoreResolves(c) ==
    LET call == tokenCalls[c]
        content == tokenStoreFile
        after ==
            CASE call.op = "login" ->
                   [call EXCEPT !.pc = "writing",
                                !.store = WithToken(content, call.token, call.expiryTime)]
              [] call.op = "verify" ->
                   IF ~HasToken(content, call.token)
                   THEN [call EXCEPT !.pc = "done", !.result = "null"]
                   ELSE IF TokenExpired(TokenInfoOf(content, call.token), tokenClock)
                        THEN [call EXCEPT !.pc = "deleting"]
                        ELSE [call EXCEPT !.pc = "done", !.result = "tokenInfo"]
              [] OTHER ->
                   IF WithoutExpired(content, tokenClock) # content
                   THEN [call EXCEPT !.pc = "writing",
                                     !.store = WithoutExpired(content, tokenClock)]
                   ELSE [call EXCEPT !.pc = "done"]
    IN  /\ call.pc = "reading"
        /\ tokenCalls' = [tokenCalls EXCEPT ![c] = after]
        /\ UNCHANGED <<tokenStoreFile, tokenClock, savedTokens>>
        /\ UNCHANGED <<bpVars, cacheVars, grokVars, adapterVars, serviceVars, refreshVars, usageVars, managerVars, hasherVars, attemptVars, supervisorVars, singletonVars>>

\* readTokenStore() of deleteToken, called by verifyToken for an expired
\* token, resolves.
DeleteTokenReads(c) ==
    LET call == tokenCalls[c]
    IN  /\ call.pc = "deleting"
        /\ tokenCalls' = [tokenCalls EXCEPT ![c] =
                IF HasToken(tokenStoreFile, call.token)
                THEN [call EXCEPT !.pc = "writing",
                                  !.store = WithoutToken(tokenStoreFile, call.token),
                                  !.result = "null"]
                ELSE [call EXCEPT !.pc = "done", !.result = "null"]]
        /\ UNCHANGED <<tokenStoreFile, tokenClock, savedTokens>>
        /\ UNCHANGED <<bpVars, cacheVars, grokVars, adapterVars, serviceVars, refreshVars, usageVars, managerVars, hasherVars, attemptVars, supervisorVars, singletonVars>>

\* writeTokenStore(tokenStore) of call c replaces the file and the call
\* returns.
WriteTokenStoreResolves(c) ==
    LET call == tokenCalls[c]
    IN  /\ call.pc = "writing"
        /\ tokenStoreFile' = call.store
        /\ tokenCalls' = [tokenCalls EXCEPT ![c] = [call EXCEPT !.pc = "done"]]
        /\ savedTokens' = IF call.op = "login"
                          THEN savedTokens \cup
                                 { [token |-> call.token, expiryTime |-> call.expiryTime] }
                          ELSE savedTokens
        /\ UNCHANGED tokenClock
        /\ UNCHANGED <<bpVars, cacheVars, grokVars, adapterVars, serviceVars, refreshVars, usageVars, managerVars, hasherVars, attemptVars, supervisorVars, singletonVars>>

TokenTimePasses ==
    /\ tokenClock < MaxTokenTime
    /\ tokenClock' = tokenClock + 1
    /\ UNCHANGED <<tokenStoreFile, tokenCalls, savedTokens>>
    /\ UNCHANGED <<bpVars, cacheVars, grokVars, adapterVars, serviceVars, refreshVars, usageVars, managerVars, hasherVars, attemptVars, supervisorVars, singletonVars>>

NextTokens ==
    \/ \E c \in TokenCallIds : LoginCall(c)
    \/ \E c \in TokenCallIds, token \in TokenNames : VerifyTokenCall(c, token)
    \/ \E c \in TokenCallIds : CleanupExpiredTokensCall(c)
    \/ \E c \in TokenCallIds : ReadTokenStoreResolves(c)
    \/ \E c \in TokenCallIds : DeleteTokenReads(c)
    \/ \E c \in TokenCallIds : WriteTokenStoreResolves(c)
    \/ TokenTimePasses

-----------------------------------------------------------------------------
(* getServiceAdapter of src/providers/adapter.js (src/unnamed/part_001),
   called again and again: serviceInstances as a map from the providerKey
   string to the instance, and the instances as they are constructed. *)

\* getServiceAdapter calls made in one run.
MaxAdapterCalls == 3

\* adapterRegistry after the registerAdapter calls: two of the providers.
AdapterRegistry == { "grok-custom", "openai-custom" }

\* config.MODEL_PROVIDER: registered providers and one that is not.
AdapterProviders == AdapterRegistry \cup { "grok" }

\* config.uuid: "" is a config without uuid.
AdapterUuids == { "", "u1", "-customu1" }

\* A config; constructs tells whether the constructor of its adapter class
\* returns.
AdapterConfigs ==
    [MODEL_PROVIDER : AdapterProviders, uuid : AdapterUuids, constructs : BOOLEAN]

NoInstance == 0

NoAdapterCall ==
    [n |-> 0, config |-> [MODEL_PROVIDER |-> "", uuid |-> "", constructs |-> FALSE],
     providerKey |-> "", returned |-> NoInstance, thrown |-> FALSE]

SingletonAtRest ==
    /\ instancesByKey = {}
    /\ constructions = << >>
    /\ adapterCall = NoAdapterCall
    /\ returnedAdapters = {}

\* const providerKey = config.uuid ? provider + config.uuid : provider;
ProviderKeyString(config) ==
    IF config.uuid # "" THEN config.MODEL_PROVIDER \o config.uuid ELSE config.MODEL_PROVIDER

\* A getServiceAdapter that looks up nothing.
NeverCached(instances, key) == FALSE

\* serviceInstances[providerKey] is set
CachedInstance(instances, key) == \E e \in instances : e.key = key

\* serviceInstances[providerKey]
InstanceOf(instances, key) == (CHOOSE e \in instances : e.key = key).instance

\* getServiceAdapter(config)
GetServiceAdapter(config) ==
    LET key == ProviderKeyString(config)
        call == [NoAdapterCall EXCEPT !.n = adapterCall.n + 1, !.config = config,
                                      !.providerKey = key]
    IN  /\ adapterCall.n < MaxAdapterCalls
        /\ IF CachedInstance(instancesByKey, key)
           THEN /\ adapterCall' = [call EXCEPT !.returned = InstanceOf(instancesByKey, key)]
                /\ UNCHANGED <<instancesByKey, constructions>>
           ELSE IF config.MODEL_PROVIDER \in AdapterRegistry /\ config.constructs
                THEN LET instance == Len(constructions) + 1
                     IN  /\ constructions' = Append(constructions, key)
                         /\ instancesByKey' =
                               { e \in instancesByKey : e.key # key }
                                 \cup { [key |-> key, instance |-> instance] }
                         /\ adapterCall' = [call EXCEPT !.returned = instance]
                ELSE /\ adapterCall' = [call EXCEPT !.thrown = TRUE]
                     /\ UNCHANGED <<instancesByKey, constructions>>
        /\ returnedAdapters' =
              IF adapterCall'.thrown THEN returnedAdapters
              ELSE returnedAdapters \cup { [key |-> key, instance |-> adapterCall'.returned] }
        /\ UNCHANGED <<bpVars, cacheVars, grokVars, adapterVars, serviceVars, refreshVars, usageVars, managerVars, hasherVars, attemptVars, supervisorVars, tokenVars>>

NextSingletons ==
    \E config \in AdapterConfigs : GetServiceAdapter(config)

----------------------------------------------------------------------------
(* Specifications *)

BreakpointsAtRest ==
    /\ tokenizerFails = FALSE
    /\ request = [tools |-> << >>, system |-> [kind |-> "null"], messages |-> << >>]
    /\ breakpoints = << >>
    /\ prevRequest = request
    /\ prevBreakpoints = << >>

NextBreakpoints ==
    \E req \in FollowUps(request) : ComputeBreakpointsCall(req)

InitSpecBreakpoints == InitBreakpoints /\ CacheAtRest /\ GrokAtRest /\ AdapterAtRest /\ ServiceAtRest /\ RefreshAtRest /\ UsageAtRest /\ ManagerAtRest /\ HasherAtRest /\ AttemptAtRest /\ SupervisorAtRest /\ TokenAtRest /\ SingletonAtRest

InitSpecCache == InitCache /\ BreakpointsAtRest /\ GrokAtRest /\ AdapterAtRest /\ ServiceAtRest /\ RefreshAtRest /\ UsageAtRest /\ ManagerAtRest /\ HasherAtRest /\ AttemptAtRest /\ SupervisorAtRest /\ TokenAtRest /\ SingletonAtRest

InitSpecGrok == InitGrok /\ BreakpointsAtRest /\ CacheAtRest /\ AdapterAtRest /\ ServiceAtRest /\ RefreshAtRest /\ UsageAtRest /\ ManagerAtRest /\ HasherAtRest /\ AttemptAtRest /\ SupervisorAtRest /\ TokenAtRest /\ SingletonAtRest

InitSpecGrokPair == InitGrokPair /\ BreakpointsAtRest /\ CacheAtRest /\ AdapterAtRest /\ ServiceAtRest /\ RefreshAtRest /\ UsageAtRest /\ ManagerAtRest /\ HasherAtRest /\ AttemptAtRest /\ SupervisorAtRest /\ TokenAtRest /\ SingletonAtRest

InitSpecBreakpointsNames == InitBreakpointsNames /\ CacheAtRest /\ GrokAtRest /\ AdapterAtRest /\ ServiceAtRest /\ RefreshAtRest /\ UsageAtRest /\ ManagerAtRest /\ HasherAtRest /\ AttemptAtRest /\ SupervisorAtRest /\ TokenAtRest /\ SingletonAtRest

\* computeBreakpoints over variants of requests whose tools may have
\* canonically equivalent names.
SpecBreakpointsNames == InitSpecBreakpointsNames /\ [][NextBreakpointsVariants]_vars

\* computeBreakpoints over conversations and variants of their requests.
SpecBreakpointsVariants == InitSpecBreakpoints /\ [][NextBreakpointsVariants]_vars

\* Two Grok streams converted side by side by one GrokConverter.
SpecGrokPair == InitSpecGrokPair /\ [][NextGrokPair]_vars

InitSpecGrokConnect == InitGrokConnect /\ BreakpointsAtRest /\ CacheAtRest /\ ServiceAtRest /\ RefreshAtRest /\ UsageAtRest /\ ManagerAtRest /\ HasherAtRest /\ AttemptAtRest /\ SupervisorAtRest /\ TokenAtRest /\ SingletonAtRest

\* One generateContentStream call with its uploads, its request and its errors.
SpecGrokConnect == InitSpecGrokConnect /\ [][NextGrokConnect]_vars

InitSpecService ==
    /\ InitService
    /\ BreakpointsAtRest /\ CacheAtRest /\ GrokAtRest /\ AdapterAtRest /\ RefreshAtRest
    /\ UsageAtRest /\ ManagerAtRest /\ HasherAtRest /\ AttemptAtRest /\ SupervisorAtRest /\ TokenAtRest /\ SingletonAtRest

InitSpecRefresh ==
    /\ InitRefresh
    /\ BreakpointsAtRest /\ CacheAtRest /\ GrokAtRest /\ AdapterAtRest /\ ServiceAtRest
    /\ UsageAtRest /\ ManagerAtRest /\ HasherAtRest /\ AttemptAtRest /\ SupervisorAtRest /\ TokenAtRest /\ SingletonAtRest

\* Concurrent refreshToken and forceRefreshToken calls on one adapter.
SpecRefresh == InitSpecRefresh /\ [][NextRefresh]_vars

InitSpecUsage ==
    /\ InitUsage
    /\ BreakpointsAtRest /\ CacheAtRest /\ GrokAtRest /\ AdapterAtRest /\ ServiceAtRest
    /\ RefreshAtRest /\ ManagerAtRest /\ HasherAtRest /\ AttemptAtRest /\ SupervisorAtRest /\ TokenAtRest /\ SingletonAtRest

\* Concurrent updateProviderUsageCache calls, every await of which returns.
SpecUsageUpdate == InitSpecUsage /\ [][NextUsageUpdate]_vars /\ WF_vars(UsageReplies)

\* Concurrent calls of readUsageCache, writeUsageCache and
\* updateProviderUsageCache.
SpecUsage == InitSpecUsage /\ [][NextUsage]_vars

InitSpecManager ==
    /\ InitManager
    /\ BreakpointsAtRest /\ CacheAtRest /\ GrokAtRest /\ AdapterAtRest /\ ServiceAtRest
    /\ RefreshAtRest /\ UsageAtRest /\ HasherAtRest /\ AttemptAtRest /\ SupervisorAtRest /\ TokenAtRest /\ SingletonAtRest

InitSpecHashers ==
    /\ InitHashers
    /\ BreakpointsAtRest /\ CacheAtRest /\ GrokAtRest /\ AdapterAtRest /\ ServiceAtRest
    /\ RefreshAtRest /\ UsageAtRest /\ ManagerAtRest /\ AttemptAtRest /\ SupervisorAtRest /\ TokenAtRest /\ SingletonAtRest

\* One hasher of each class under the same operations.
SpecHashers == InitSpecHashers /\ [][NextHashers]_vars

InitSpecGrokAttempts ==
    /\ InitGrokAttempts
    /\ BreakpointsAtRest /\ CacheAtRest /\ GrokAtRest /\ AdapterAtRest /\ UsageAtRest
    /\ HasherAtRest /\ SupervisorAtRest /\ TokenAtRest /\ SingletonAtRest

\* The generateContentStream calls of one request on a Grok adapter, with
\* the usage syncs of the adapter.
SpecGrokAttempts == InitSpecGrokAttempts /\ [][NextGrokAttempts]_vars

InitSpecSupervisor ==
    /\ InitSupervisor
    /\ BreakpointsAtRest /\ CacheAtRest /\ GrokAtRest /\ AdapterAtRest /\ ServiceAtRest
    /\ RefreshAtRest /\ UsageAtRest /\ ManagerAtRest /\ HasherAtRest /\ AttemptAtRest
    /\ TokenAtRest /\ SingletonAtRest

\* The master process under requests, worker messages, worker exits and
\* timers in any order.
SpecSupervisor == InitSpecSupervisor /\ [][NextSupervisor]_vars

\* The same with timers that fire: a timer that stays set fires.
SpecSupervisorFair ==
    /\ SpecSupervisor
    /\ WF_vars(ScheduledRestartFires)
    /\ WF_vars(\E s \in stops : ForceKillFires(s))
    /\ WF_vars(\E r \in restarts : RestartDelayFires(r))

InitSpecTokens ==
    /\ InitTokens
    /\ BreakpointsAtRest /\ CacheAtRest /\ GrokAtRest /\ AdapterAtRest /\ ServiceAtRest
    /\ RefreshAtRest /\ UsageAtRest /\ ManagerAtRest /\ HasherAtRest /\ AttemptAtRest
    /\ SupervisorAtRest /\ SingletonAtRest

\* Logins, verifications and cleanups on one token store file.
SpecTokens == InitSpecTokens /\ [][NextTokens]_vars

InitSpecSingletons ==
    /\ SingletonAtRest
    /\ BreakpointsAtRest /\ CacheAtRest /\ GrokAtRest /\ AdapterAtRest /\ ServiceAtRest
    /\ RefreshAtRest /\ UsageAtRest /\ ManagerAtRest /\ HasherAtRest /\ AttemptAtRest
    /\ SupervisorAtRest /\ TokenAtRest

\* getServiceAdapter called with one config after another.
SpecSingletons == InitSpecSingletons /\ [][NextSingletons]_vars

\* The start of the server and the adapter of a request.
SpecManager == InitSpecManager /\ [][NextManager]_vars

\* Concurrent getApiServiceWithFallback calls that acquire slots.
SpecService == InitSpecService /\ [][NextService]_vars

\* One Grok stream with thinking, converted as a stream and collected.
SpecGrokThinking == InitSpecGrok /\ [][NextGrokThinking]_vars

\* computeBreakpoints called along a growing and shrinking conversation.
SpecBreakpoints == InitSpecBreakpoints /\ [][NextBreakpoints]_vars

\* The cache service with its store, its connection and concurrent
\* lookupOrCreate calls.
SpecCache == InitSpecCache /\ [][NextCache]_vars

InitSpecCacheStored ==
    /\ InitCacheStored
    /\ BreakpointsAtRest /\ GrokAtRest /\ AdapterAtRest /\ ServiceAtRest /\ RefreshAtRest
    /\ UsageAtRest /\ ManagerAtRest /\ HasherAtRest /\ AttemptAtRest /\ SupervisorAtRest /\ TokenAtRest /\ SingletonAtRest

\* lookupOrCreate over every content of the store.
SpecCacheStored == InitSpecCacheStored /\ [][NextCacheStored]_vars

\* One Grok stream from its first upstream event to its end.
SpecGrok == InitSpecGrok /\ [][NextGrok]_vars

----------------------------------------------------------------------------
(* Properties of computeBreakpoints *)

\* The <<message, block>> positions of the blocks that carry cache_control.
MarkedPositions(messages) ==
    { p \in (1..Len(messages)) \X (1..MaxUnits + 1) :
        /\ messages[p[1]].content.kind = "array"
        /\ p[2] <= Len(messages[p[1]].content.blocks)
        /\ messages[p[1]].content.blocks[p[2]].cache_control # NoCC }

NotAfter(p, q) == p[1] < q[1] \/ (p[1] = q[1] /\ p[2] <= q[2])

\* The position of the last block that carries cache_control, <<0, 0>> when
\* no block does.
LastMarkedPosition(messages) ==
    IF MarkedPositions(messages) = {} THEN << 0, 0 >>
    ELSE CHOOSE p \in MarkedPositions(messages) :
             \A q \in MarkedPositions(messages) : NotAfter(q, p)

\* Requests a and b have the same tools, the same system and the same message
\* blocks up to and including the last block that carries cache_control; they
\* may differ in what comes after it.
SamePrefix(a, b) ==
    LET pa == LastMarkedPosition(a.messages)
        pb == LastMarkedPosition(b.messages)
    IN  /\ a.tools = b.tools
        /\ a.system = b.system
        /\ pa = pb
        /\ pa # << 0, 0 >> =>
              /\ SubSeq(a.messages, 1, pa[1] - 1) = SubSeq(b.messages, 1, pa[1] - 1)
              /\ a.messages[pa[1]].role = b.messages[pa[1]].role
              /\ SubSeq(a.messages[pa[1]].content.blocks, 1, pa[2])
                     = SubSeq(b.messages[pa[1]].content.blocks, 1, pa[2])

SameHashAndTokens(x, y) ==
    /\ Len(x) = Len(y)
    /\ \A i \in 1..Len(x) : x[i].hash = y[i].hash /\ x[i].tokens = y[i].tokens

\* C1. Prefix-cache independence: two requests that agree in tools, system and
\* message blocks up to and including the last block carrying cache_control,
\* and differ only after it, get the same number of breakpoints with the same
\* hash and the same token count at every breakpoint.
C1_PrefixCacheIndependence ==
    SamePrefix(prevRequest, request) =>
        SameHashAndTokens(prevBreakpoints, breakpoints)

\* Two consecutive requests with a marked block in their messages that differ
\* after it.
C1_Witness ==
    /\ SamePrefix(prevRequest, request)
    /\ LastMarkedPosition(request.messages) # << 0, 0 >>
    /\ prevRequest.messages # request.messages
    /\ Len(breakpoints) >= 2

\* The tools, in hashing order, then the system entries, then the blocks, as
\* their cache_control; skipBilling leaves out the system entries that hold
\* the billing header.
Markers(req, skipBilling) ==
    LET sorted  == SortTools(req.tools)
        entries == IF req.system.kind = "array" THEN req.system.entries ELSE << >>
        kept(e) == ~(skipBilling /\ Includes(e.text, BillingHeader))
        blocksOf(m) == IF m.content.kind = "array" THEN m.content.blocks ELSE << >>
        RECURSIVE AllBlocks(_)
        AllBlocks(ms) ==
            IF ms = << >> THEN << >> ELSE blocksOf(Head(ms)) \o AllBlocks(Tail(ms))
        blocks  == AllBlocks(req.messages)
        marked(x) == x.cache_control # NoCC
    IN  [i \in 1..Len(SelectSeq(sorted, marked)) |->
            SelectSeq(sorted, marked)[i].cache_control]
        \o [i \in 1..Len(SelectSeq(entries, LAMBDA e : marked(e) /\ kept(e))) |->
            SelectSeq(entries, LAMBDA e : marked(e) /\ kept(e))[i].cache_control]
        \o [i \in 1..Len(SelectSeq(blocks, marked)) |->
            SelectSeq(blocks, marked)[i].cache_control]

\* C8 as stated. One breakpoint at every tool, system entry and block that
\* carries cache_control: as many breakpoints as markers.
C8_BreakpointAtEveryMarker ==
    Len(breakpoints) = Len(Markers(request, FALSE))

\* C8, amended. One breakpoint at, and only at, every tool, every system entry
\* whose text does not hold the billing header, and every block that carries
\* cache_control, in hashing order (tools by name, system, messages), with the
\* marker's ttl and non-decreasing token counts.
C8_BreakpointAtEveryHashedMarker ==
    LET expected == Markers(request, TRUE)
    IN  /\ Len(breakpoints) = Len(expected)
        /\ \A i \in 1..Len(breakpoints) :
              /\ breakpoints[i].ttl = parseTtl(expected[i])
              /\ i > 1 => breakpoints[i - 1].tokens <= breakpoints[i].tokens

\* A request whose marked billing-header entry made no breakpoint while its
\* tools and blocks made theirs.
C8_Witness ==
    /\ Len(Markers(request, FALSE)) > Len(Markers(request, TRUE))
    /\ Len(breakpoints) >= 3
    /\ \E i, j \in 1..Len(breakpoints) : breakpoints[i].ttl # breakpoints[j].ttl

\* The request with every marker's content made the same.
Unmarked(req) == Remarked(req, [c \in MarkerContents |-> "5m"])

\* C25: two requests that differ only in the contents of their cache_control
\* markers get breakpoints with the same hashes and token counts.
C25_MarkerContentNotHashed ==
    Unmarked(prevRequest) = Unmarked(request) =>
        SameHashAndTokens(prevBreakpoints, breakpoints)

\* Two consecutive requests that differ in the content of the marker of a
\* block, with breakpoints of different ttl at the same place.
C25_Witness ==
    /\ Unmarked(prevRequest) = Unmarked(request)
    /\ \E m \in 1..Len(request.messages) :
          /\ request.messages[m].content.kind = "array"
          /\ request.messages[m].content.blocks[1].cache_control
                 # prevRequest.messages[m].content.blocks[1].cache_control
    /\ \E i \in 1..Len(breakpoints) : breakpoints[i].ttl # prevBreakpoints[i].ttl

\* The tools lists hold the same tools, each once by its name.
PermutedTools(a, b) ==
    /\ Len(a) = Len(b)
    /\ \A i, j \in 1..Len(a) : i # j => a[i].name # a[j].name
    /\ { a[i] : i \in 1..Len(a) } = { b[i] : i \in 1..Len(b) }

\* C26: two requests with the same system and messages whose tools lists are
\* permutations of each other, with distinct names, get the same breakpoints.
C26_ToolOrderDoesNotMatter ==
    (/\ PermutedTools(prevRequest.tools, request.tools)
     /\ prevRequest.system = request.system
     /\ prevRequest.messages = request.messages)
        => prevBreakpoints = breakpoints

----------------------------------------------------------------------------
(* Properties of lookupOrCreate and initialize *)

\* The calls that have returned.
Done == { c \in CallIds : calls[c].pc = "done" }

\* The calls that returned after a lookup in which no store operation threw.
DoneClean ==
    { c \in Done : calls[c].available /\ ~calls[c].errors /\ calls[c].bps # << >> }

LastTokens(call) == call.bps[Len(call.bps)].tokens

C3_CreationOverBreakpointsAfterHit ==
    \A c \in DoneClean :
        /\ calls[c].creation =
               LastTokens(calls[c]) - (IF calls[c].hit > 0 THEN calls[c].hitValue ELSE 0)
        /\ calls[c].createAll => calls[c].hit = 0

C5_CountedByOneCall ==
    \A c, d \in CallIds :
        (c # d /\ calls[c].sessionId = calls[d].sessionId /\ calls[c].bps = calls[d].bps) =>
            \A i \in 1..Len(calls[c].bps) :
                (KeyAt(calls[c], i) \in calls[c].counted \cap calls[d].counted) =>
                    calls[c].bps[i].tokens = 0

\* C6: a lookup that found the store unavailable, or in which a store
\* operation threw, returns the default result.
C6_FailOpenDefaultResult ==
    \A c \in Done :
        (~calls[c].available \/ calls[c].errors) =>
            /\ calls[c].read = 0
            /\ calls[c].creation = 0
            /\ calls[c].uncached = calls[c].total

\* C7: initialize and lookupOrCreate never reject; after a failed initialize
\* the service is initialised with no client; a lookup that finds the store
\* unavailable (as every one does after a failed initialize) returns the
\* default result without a store operation.
C7_FailuresStayInside ==
    /\ initOutcome # "rejected"
    /\ initOutcome = "failed" => (isInitialized /\ client = NoClient /\ ~isAvailable)
    /\ \A c \in CallIds :
        /\ calls[c].pc # "rejected"
        /\ (calls[c].pc # "idle" /\ ~calls[c].available) =>
            /\ calls[c].pc = "done"
            /\ ~calls[c].touched
            /\ calls[c].read = 0
            /\ calls[c].creation = 0
            /\ calls[c].uncached = calls[c].total

\* initialize has failed, and a lookup of two breakpoints made after it has
\* returned.
C7_Witness ==
    /\ initOutcome = "failed"
    /\ \E c \in Done : ~calls[c].available /\ calls[c].quiet /\ Len(calls[c].bps) = 2

----------------------------------------------------------------------------
(* Properties of the Grok stream conversion *)

\* What of a chunk the client reads as its delta and finish_reason.
Delta(chunk) == [role |-> chunk.role, content |-> chunk.content,
                 tool_calls |-> chunk.tool_calls, finish_reason |-> chunk.finish_reason]

\* The stream of text, tool call in three tokens, text; every event carries
\* the stream's responseId.
ToolCallStream ==
    [i \in 1..5 |-> Event(<< TokHello, TokOpen, TokBody, TokClose, TokDone >>[i],
                          FALSE, streamId)]

\* C9: that stream, then its end, gives one role delta, one content delta per
\* text token outside the block, nothing for the block, and one last delta
\* with the tool call, finish_reason tool_calls and no content text.
C9_ToolCallReconstruction ==
    (streamPc = "closed" /\ yielded = ToolCallStream) =>
        /\ Len(emitted) = 4
        /\ emitted[1].role = "assistant" /\ emitted[1].content \in { << >>, NullStr }
        /\ Delta(emitted[2]) = Delta(Chunk("", "", TokHello, << >>, ""))
        /\ Delta(emitted[3]) = Delta(Chunk("", "", TokDone, << >>, ""))
        /\ Delta(emitted[4]) = Delta(Chunk("", "", NullStr, << ToolCall >>, "tool_calls"))

\* C10: the first chunk of a stream carries the role and no later chunk does.
C10_RoleExactlyOnce ==
    /\ streamPc = "closed" => Len(emitted) > 0
    /\ Len(emitted) > 0 => emitted[1].role = "assistant"
    /\ \A i \in 2..Len(emitted) : emitted[i].role = ""

\* C11: a stream the upstream ended normally has exactly one chunk with a
\* finish_reason, and that chunk is the last one emitted.
C11_OneFinishChunkLast ==
    streamPc = "closed" =>
        /\ Len(emitted) > 0
        /\ emitted[Len(emitted)].finish_reason # ""
        /\ \A i \in 1..(Len(emitted) - 1) : emitted[i].finish_reason = ""

\* C14: when the stream has ended, by its terminal delta or by an error, the
\* converter holds no state created during it.
C14_StatesReleased ==
    streamPc \in { "closed", "failed" } => requestStates = NoStates

\* The event the step yields, when it yields one.
YieldsEvent(e) == yielded' = Append(yielded, e)

\* The state the converter holds for the event when it arrives.
StateFor(e) == GetState(requestStates, FormatResponseId(e.responseId, uuidCount))

\* The event is a token received while thinking or while an image or a video
\* is being generated.
ThinkingToken(e) ==
    /\ e.token # NullStr
    /\ \/ e.isThinking
       \/ StateFor(e).image_think_active
       \/ StateFor(e).video_think_active

\* The chunks the step emits.
NewChunks == SubSeq(emitted', Len(emitted) + 1, Len(emitted'))

\* C12: the text of a token received while thinking (or while an image or a
\* video is being generated) goes out as reasoning_content only: no chunk of
\* its event has content, and no content buffer changes.
C12_ThinkingOnlyInReasoning ==
    [][\A e \in { ThinkingEvent(t, streamId) : t \in ThinkingTokens }
            \cup { Event(t, FALSE, streamId) : t \in PlainTokens } :
          (YieldsEvent(e) /\ ThinkingToken(e)) =>
              /\ \A i \in 1..Len(NewChunks) : NewChunks[i].content \in { NullStr, << >> }
              /\ NewChunks[Len(NewChunks)].reasoning_content = FilterToken(e.token)
              /\ \A k \in DOMAIN requestStates' :
                    requestStates'[k].content_buffer =
                        GetState(requestStates, k).content_buffer]_vars

\* A tool call written in one thinking token and a plain text were streamed
\* to the end: the thought went out as reasoning, the text as content, and
\* the stream stopped without a tool call.
C12_Witness ==
    /\ streamPc = "closed"
    /\ \E i \in 1..Len(yielded) : yielded[i] = ThinkingEvent(TokWhole, streamId)
    /\ \E i \in 1..Len(emitted) : emitted[i].reasoning_content = TokWhole
    /\ \E i \in 1..Len(emitted) : emitted[i].content = TokHello
    /\ emitted[Len(emitted)].finish_reason = "stop"
    /\ \A i \in 1..Len(yielded) : yielded[i].token \in { TokWhole, TokHello }

RECURSIVE CollectAll(_)
\* What generateContent collects of the events, first to last.
CollectAll(events) ==
    IF events = << >> THEN NothingCollected
    ELSE Collect(CollectAll(SubSeq(events, 1, Len(events) - 1)), events[Len(events)])

\* C13: the message content of the non-streaming response is that of the
\* tokens received with isThinking false alone.
C13_ResponseWithoutThinking ==
    streamPc = "closed" =>
        response.content =
            toOpenAIResponse(CollectAll(SelectSeq(yielded, LAMBDA e : ~e.isThinking)),
                             uuidCount).content

RECURSIVE PlainText(_)
\* The text of the tokens received with isThinking false, in order.
PlainText(events) ==
    IF events = << >> THEN << >>
    ELSE PlainText(SubSeq(events, 1, Len(events) - 1))
         \o (LET e == events[Len(events)]
             IN  IF e.token # NullStr /\ ~e.isThinking THEN FilterToken(e.token) ELSE << >>)

\* The text ends inside a tool_call block: its last tag is an open tag.
EndsInBlock(text) ==
    \E p \in 1..Len(text) :
        /\ text[p] = OpenTag
        /\ \A q \in (p + 1)..Len(text) : text[q] \notin { OpenTag, CloseTag }

\* No image or video generation in the stream.
TokensOnly == \A i \in 1..Len(yielded) : ~yielded[i].image /\ yielded[i].video = ""

\* C15: the chunks come in the order of their events, and in a stream of
\* tokens every thinking token has its reasoning chunk and every text token
\* received outside a tool_call block has its content chunk, emitted for
\* that very event.
C15_OrderKeptAndTextNotWithheld ==
    /\ \A k \in 1..(Len(origin) - 1) : origin[k] <= origin[k + 1]
    /\ TokensOnly =>
          \A i \in 1..Len(yielded) :
              LET e == yielded[i]
              IN  /\ (e.token # NullStr /\ e.isThinking) =>
                        \E k \in 1..Len(emitted) :
                            origin[k] = i /\ emitted[k].reasoning_content = FilterToken(e.token)
                  /\ (/\ e.token \in { TokHello, TokDone }
                      /\ ~e.isThinking
                      /\ ~EndsInBlock(PlainText(SubSeq(yielded, 1, i - 1)))) =>
                        \E k \in 1..Len(emitted) :
                            origin[k] = i /\ emitted[k].content = FilterToken(e.token)

RECURSIVE AloneRun(_)
\* The events converted one after the other by a converter that has seen
\* nothing else: the chunks returned and the states left.
AloneRun(events) ==
    IF events = << >> THEN [chunks |-> << >>, states |-> NoStates, uuids |-> 0]
    ELSE LET before == AloneRun(SubSeq(events, 1, Len(events) - 1))
             out    == toOpenAIStreamChunk(events[Len(events)], before.states, before.uuids)
         IN  [chunks |-> before.chunks \o out.chunks, states |-> out.states,
              uuids |-> out.uuids]

\* The events generateContentStream has yielded of a stream, its final chunk
\* included once the stream is closed.
AllYielded(events, pc, last) ==
    IF pc = "closed" THEN Append(events, Event(NullStr, TRUE, last)) ELSE events

\* The state kept under the response id, if any.
StateOf(states, id) ==
    IF FormatResponseId(id, 0) \in DOMAIN states
    THEN << states[FormatResponseId(id, 0)] >> ELSE << >>

\* C16: each of two interleaved streams gets the chunks it gets when it is
\* converted alone, and its state entry is the one it has alone.
C16_StreamsIsolated ==
    LET mine   == AloneRun(AllYielded(yielded, streamPc, lastResponseId))
        theirs == AloneRun(AllYielded(other.yielded, other.pc, other.lastResponseId))
    IN  /\ emitted = mine.chunks
        /\ other.emitted = theirs.chunks
        /\ StateOf(requestStates, streamId) = StateOf(mine.states, streamId)
        /\ StateOf(requestStates, OtherId) = StateOf(theirs.states, OtherId)

\* Both streams were inside a tool call at once, and both have ended with
\* their own tool call.
C16_Witness ==
    /\ streamPc = "closed"
    /\ other.pc = "closed"
    /\ Len(yielded) = 3
    /\ Len(other.yielded) = 3
    /\ emitted[Len(emitted)].finish_reason = "tool_calls"
    /\ other.emitted[Len(other.emitted)].finish_reason = "tool_calls"
    /\ emitted[Len(emitted)].id # other.emitted[Len(other.emitted)].id

\* The call has failed for authentication: the request was rejected with 401
\* or 403, or the response was an HTML page.
AuthenticationFailure ==
    /\ streamPc = "failed"
    /\ \/ thrown.status \in { 401, 403 }
       \/ contentType \in HtmlTypes

\* C17: a failed generateContentStream call has thrown an error to its
\* caller, with shouldSwitchCredential exactly when the failure is an
\* authentication failure.
C17_AuthFailuresSwitchCredential ==
    streamPc = "failed" =>
        /\ thrown # NoError
        /\ thrown.shouldSwitchCredential <=> AuthenticationFailure

\* The calls that hold a slot of the credential and can still release it:
\* those between the acquisition and their return, and those whose caller has
\* the uuid and has not released yet.
Holders(uuid) ==
    { c \in ApiCallIds : apiCalls[c].pc \in { "selected", "returned" }
                         /\ apiCalls[c].uuid = uuid }

\* C18: every slot taken of a credential is held by a call that will return
\* it with the uuid or by a caller that has the uuid; no slot is held by a
\* call that has failed.
C18_SlotsPaired == \A uuid \in Uuids : activeCount[uuid] = Cardinality(Holders(uuid))

\* The calls whose upstream refresh is in flight.
InFlightRefreshes == { c \in RefreshCallIds : refreshCalls[c].pc = "awaiting" }

\* C19: at most one upstream refresh of a Grok adapter instance is in flight.
C19_SingleFlightRefresh == adapterKind = "grok" => Cardinality(InFlightRefreshes) <= 1

\* A call that is past its check of isExpiryDateNear.
Decided(c) == refreshCalls[c].pc \in { "awaiting", "resolved", "rejected" }

\* C20: on an adapter that has a provider refresh, refreshToken issues the
\* upstream refresh exactly when isExpiryDateNear() was true, and
\* forceRefreshToken always; an adapter with static keys issues none.
C20_RefreshOnlyWhenNear ==
    \A c \in RefreshCallIds :
        Decided(c) =>
            refreshCalls[c].issued =
                (/\ adapterKind # "static"
                 /\ refreshCalls[c].op = "refreshToken" => refreshCalls[c].near)

----------------------------------------------------------------------------
(* Properties of the usage cache *)

\* The calls that are between the await of the lock and their finally.
InReadModifyWrite ==
    { c \in UsageCallIds : /\ usageCalls[c].op = "update"
                           /\ usageCalls[c].pc \in { "readFile", "writeFile", "rename", "unlink" } }

\* The calls made before the call, in call order.
MadeBefore(c) ==
    { made[i] : i \in { i \in 1..Len(made) : \E j \in (i + 1)..Len(made) : made[j] = c } }

\* The updateProviderUsageCache calls made for the provider type, in call
\* order.
MadeFor(type) == SelectSeq(made, LAMBDA c : usageCalls[c].type = type)

\* What the file holds for the type after the updates made: the data of the
\* last call made for it, or what the file held when the module was loaded.
LastDataFor(type) ==
    IF MadeFor(type) = << >> THEN loaded.doc[type]
    ELSE UsageData(MadeFor(type)[Len(MadeFor(type))])

\* Calls were made and the write of each has succeeded.
AllWritten ==
    /\ made # << >>
    /\ \A i \in 1..Len(made) : usageCalls[made[i]].outcome = "written"

\* Read-modify-writes do not overlap, run in call order, and after updates
\* that all wrote the file holds the data of the last call of every type.
UpdatesSerialized ==
    /\ Cardinality(InReadModifyWrite) <= 1
    /\ \A c \in InReadModifyWrite : \A b \in MadeBefore(c) : usageCalls[b].pc = "done"
    /\ AllWritten =>
          /\ files[UsageCacheFile].state = "whole"
          /\ \A type \in UsageProviderTypes :
                files[UsageCacheFile].doc[type] = LastDataFor(type)

C22_WritesUnderTheLock ==
    \A c \in UsageCallIds :
        (usageCalls[c].op = "update" /\ usageCalls[c].outcome = "written") =>
            usageCalls[c].renamedOver = usageCalls[c].readVersion

\* A file that is absent or holds a whole document.
Intact(content) == content.state \in { "absent", "whole" }

\* The cache file and what the readers got are whole documents, and a call
\* that is over has left no temporary file.
NothingPartial ==
    /\ Intact(files[UsageCacheFile])
    /\ \A c \in UsageCallIds :
          /\ Intact(usageCalls[c].result)
          /\ usageCalls[c].pc = "done" => files[TmpFile(c)] = Absent

\* A step in which a write fails: from it on the call is out of its rename
\* or has failed.
WriteFails(c) ==
    \/ usageCalls[c].pc \in { "writeFile", "rename" } /\ usageCalls'[c].pc = "unlink"
    \/ usageCalls[c].pc = "unlink" /\ usageCalls'[c].outcome = "failed"

----------------------------------------------------------------------------
(* Properties of the counts of lookupOrCreate *)

\* C24: a lookupOrCreate call that has returned reports
\* uncached_input_tokens = max(0, totalTokens - read - creation) and no
\* negative count.
C24_CountsConsistent ==
    \A c \in CallIds :
        calls[c].pc = "done" =>
            /\ calls[c].uncached = Max(0, calls[c].total - calls[c].read - calls[c].creation)
            /\ calls[c].read >= 0
            /\ calls[c].creation >= 0
            /\ calls[c].uncached >= 0

-----------------------------------------------------------------------------
(* Properties of initApiService, getApiService and getApiServiceWithFallback *)

\* The calls for a provider with a pool that the pool manager answered with
\* null.
Unanswered ==
    { c \in SelectCallIds : /\ selectCalls[c].pc \in { "returned", "failed" }
                            /\ Pooled(selectCalls[c].config.type)
                            /\ selectCalls[c].answer = NoCredential }

\* The step in which the pool manager answers call c with null.
AnsweredWithNull(c) ==
    /\ selectCalls[c].pc = "selecting"
    /\ selectCalls'[c].pc # "selecting"
    /\ selectCalls'[c].answer = NoCredential

\* C27: a call of getApiService or getApiServiceWithFallback for a provider
\* with a pool, which the pool manager answers with null, fails with the
\* 'No healthy provider' error and returns no adapter, and the answer makes no
\* adapter instance and takes no slot.
C27_NoCredentialFails ==
    /\ [](\A c \in Unanswered :
             /\ selectCalls[c].pc = "failed"
             /\ selectCalls[c].error = "No healthy provider found in pool"
             /\ selectCalls[c].adapter = NoAdapter)
    /\ [][\A c \in SelectCallIds :
             AnsweredWithNull(c) => /\ serviceInstances' = serviceInstances
                                    /\ activeCount' = activeCount]_vars

\* A call for a provider with a registered adapter class failed for want of
\* a credential, and no adapter of the request configuration exists.
C27_Witness ==
    \E c \in Unanswered :
        /\ selectCalls[c].config.type \in Registered
        /\ selectCalls[c].pc = "failed"
        /\ ProviderKey(selectCalls[c].config) \notin serviceInstances

\* The nodes initApiService has to attempt, in order: those of the included
\* provider types that are not disabled.
EnabledNodes(config) ==
    LET keep(i) == Included(config, config.nodes[i].type) /\ ~config.nodes[i].isDisabled
        F[i \in 0..Len(config.nodes)] ==
            IF i = 0 THEN << >>
            ELSE IF keep(i) THEN Append(F[i - 1], i) ELSE F[i - 1]
    IN  F[Len(config.nodes)]

\* C28: initApiService returns normally, having attempted every enabled node
\* of every included provider type and no other node, whichever constructions
\* fail; a rejection of the warmup or of the check of expiring nodes is caught.
C28_InitNeverAborts ==
    boot.pc # "idle" =>
        /\ boot.pc = "returned"
        /\ boot.attempted = EnabledNodes(boot.config)
        /\ boot.totalInitialized + boot.totalFailed = Len(boot.attempted)
        /\ warmup \in { "none", "pending", "resolved", "caught" }
        /\ expiringCheck \in { "none", "pending", "resolved", "caught" }

\* initApiService has returned after a node whose construction failed, with a
\* later node initialized, and the warmup has been rejected.
C28_Witness ==
    /\ boot.pc = "returned"
    /\ Len(boot.config.nodes) = 2
    /\ boot.attempted = << 1, 2 >>
    /\ ConstructionThrows({ }, boot.config.nodes[1])
    /\ boot.totalFailed = 1
    /\ boot.totalInitialized = 1
    /\ warmup = "caught"

-----------------------------------------------------------------------------
(* Properties of the two CumulativeHasher classes *)

\* C29: at every getCurrentHash and finalize the incremental hasher and the
\* string-buffer hasher return the same hash, the hash of the concatenation
\* of the data passed to update since the last reset.
C29_HashersEquivalent ==
    returned.op \in { "getCurrentHash", "finalize" } =>
        /\ returned.incremental = returned.buffered
        /\ returned.buffered = Sha256Hex(Utf8(buffered.buffer))

-----------------------------------------------------------------------------
(* Properties of the tool_call suppression of toOpenAIStreamChunk *)

\* Every '<tool_call>' of the text has its '</tool_call>' after it.
EveryBlockClosed(text) ==
    \A p \in 1..Len(text) :
        text[p] = OpenTag => \E q \in (p + 1)..Len(text) : text[q] = CloseTag

\* C30: in a stream of tokens, a text token received with isThinking false
\* when every '<tool_call>' received before has its '</tool_call>' is emitted
\* as the content of a chunk for that event.
C30_TextOutsideBlockEmitted ==
    TokensOnly =>
        \A i \in 1..Len(yielded) :
            LET e == yielded[i]
            IN  (/\ e.token \in { TokHello, TokDone }
                 /\ ~e.isThinking
                 /\ EveryBlockClosed(PlainText(SubSeq(yielded, 1, i - 1)))) =>
                    \E k \in 1..Len(emitted) :
                        origin[k] = i /\ emitted[k].content = FilterToken(e.token)

-----------------------------------------------------------------------------
(* Properties of the terminal delta of toOpenAIStreamChunk *)

\* Every event of the stream is a token with the stream's responseId, so the
\* content buffer of the stream's state is the text of its tokens.
TokensOfOneState ==
    \A i \in 1..Len(yielded) :
        /\ yielded[i].responseId = streamId
        /\ ~yielded[i].isDone
        /\ ~yielded[i].isThinking
        /\ ~yielded[i].image /\ yielded[i].video = ""

\* C31: the terminal delta of such a stream has finish_reason tool_calls and
\* carries tool calls exactly when the content buffer holds a
\* <tool_call>...</tool_call> block, has finish_reason stop otherwise, and a
\* stream that entered the capture of a tool call ends with tool_calls.
C31_ToolCallsIffBlock ==
    (streamPc = "closed" /\ TokensOfOneState /\ Len(emitted) > 0) =>
        LET last   == emitted[Len(emitted)]
            buffer == PlainText(yielded)
        IN  /\ last.finish_reason \in { "tool_calls", "stop" }
            /\ last.finish_reason = "tool_calls" <=> ToolCallMatches(buffer, 1) # << >>
            /\ last.finish_reason = "tool_calls" <=> last.tool_calls # << >>
            /\ StrIncludes(buffer, OpenTag) => last.finish_reason = "tool_calls"

-----------------------------------------------------------------------------
(* Properties of the generateContentStream calls of one request *)

\* The step in which a usage sync fails.
SyncFails ==
    \E c \in RefreshCallIds :
        refreshCalls[c].pc = "awaiting" /\ refreshCalls'[c].pc = "rejected"

\* C32: a failed usage sync leaves isExpiryDateNear() as it was, and every
\* generateContentStream call made while isExpiryDateNear() is true has
\* marked the credential for refresh before it contacts the upstream.
C32_StaleCallsMarkTheCredential ==
    /\ [](attempt.near => attempt.marked)
    /\ [][SyncFails => (GrokIsExpiryDateNear' = GrokIsExpiryDateNear)]_vars

\* C33: the fileAttachments list of the final payload of every attempt holds
\* the ids of the request and the ids uploaded by that attempt, so the lists
\* of two attempts whose uploads all succeed have the same length.
C33_AttachmentsNotCarriedOver ==
    \A i \in 1..Len(sentPayloads) :
        /\ Len(sentPayloads[i]) <= Len(sentPayloads[1]) + requestBody.images
        /\ \A k \in 1..Len(sentPayloads[i]) : sentPayloads[i][k] \in { 0, i }

-----------------------------------------------------------------------------
(* Properties of the master process *)

\* C34: at most one worker process is alive at any time.
C34_AtMostOneWorker ==
    Cardinality(alive) <= 1

\* A restart whose stopWorker timed out returned while the worker it was to
\* replace is still alive: startWorker forked nothing.
C34_Witness ==
    /\ \E s \in stops : s.resolved /\ s.restart # 0
    /\ lastReply.kind = "restart" /\ lastReply.success /\ ~lastReply.forked
    /\ Cardinality(alive) = 1

\* The worker exits while a stopWorker call of POST /master/stop waits for
\* its exit.
IntentionalExit ==
    \E s \in stops : s.restart = 0 /\ ~s.resolved /\ s.pid \notin { w.pid : w \in alive' }

\* C35: after POST /master/stop was answered no worker is forked until a
\* start or restart request arrives, and the exit of a worker that
\* POST /master/stop is stopping schedules no restart.
C35_StopIsFinal ==
    /\ [][afterStop => forks' = forks]_vars
    /\ [][IntentionalExit => scheduled' <= scheduled]_vars

RestartWorkerCalled ==
    RestartRequest \/ WorkerRestartRequest \/ ScheduledRestartFires

\* C37: at most one restartWorker call is between setting and clearing
\* isRestarting, and a restartWorker call made meanwhile returns
\* success: false and changes neither restartCount nor lastRestartTime nor
\* the worker.
C37_RestartsExclusive ==
    /\ [](Cardinality(restarts) <= 1)
    /\ [](workerStatus.isRestarting <=> restarts # {})
    /\ [][workerStatus.isRestarting /\ RestartWorkerCalled =>
            /\ lastReply'.kind = "restart" /\ ~lastReply'.success
            /\ workerStatus' = workerStatus
            /\ workerProcess' = workerProcess
            /\ alive' = alive
            /\ restarts' = restarts]_vars

\* A restart request was refused while a restart is in progress.
C37_Witness ==
    /\ restarts # {}
    /\ lastReply.kind = "restart" /\ ~lastReply.success /\ lastReply.from = "api"

\* C38: when restartWorker returns success: true, the worker that runs was
\* forked by this restart, and the pid reported is its pid: not null and
\* not the pid of the worker that ran when the restart began.
C38_RestartReportsItsWorker ==
    lastReply.kind = "restart" /\ lastReply.success =>
        /\ lastReply.forked
        /\ lastReply.pid # NoWorker
        /\ lastReply.pid # lastReply.old

-----------------------------------------------------------------------------
(* Properties of the login tokens *)

\* C39: a token whose saveToken has returned is in the token store file,
\* with its expiryTime, as long as it has not expired.
C39_SavedTokenStaysVerifiable ==
    \A s \in savedTokens :
        ~TokenExpired(s, tokenClock) => s \in tokenStoreFile

-----------------------------------------------------------------------------
(* Properties of getServiceAdapter *)

\* C40: at most one instance is constructed per providerKey, the calls with
\* one providerKey all return the same instance, which is the one
\* constructed for the key, and a call that throws leaves serviceInstances
\* as it was.
C40_OneInstancePerKey ==
    /\ [](\A i, j \in 1..Len(constructions) :
              constructions[i] = constructions[j] => i = j)
    /\ [](\A a, b \in returnedAdapters : a.key = b.key => a.instance = b.instance)
    /\ [](\A a \in returnedAdapters :
              /\ a.instance \in 1..Len(constructions)
              /\ constructions[a.instance] = a.key)
    /\ [][adapterCall'.thrown => instancesByKey' = instancesByKey]_vars

\* The second call returns the instance that the first call constructed
\* for its key, although the constructor would throw for its config.
C40_Witness ==
    /\ adapterCall.n = 2
    /\ ~adapterCall.thrown
    /\ adapterCall.returned = 1
    /\ ~adapterCall.config.constructs

====
